---- MODULE Spec2Model ----
(***************************************************************************)
(* A model of the core of econll: the span consolidator (decisor.py), the  *)
(* alignment engine (spans.py), the tag codec and scheme engine            *)
(* (parser.py, schemer.py), the chunk expander (xcoder.py) and the rebaser *)
(* (rebaser.py).                                                           *)
(*                                                                         *)
(* Every operation of the library is a function of its arguments, so the   *)
(* state of the program is one pending call and what it produced:          *)
(*   pc     - "call" before the operation runs, "done" after it returned   *)
(*            or raised;                                                   *)
(*   args   - the arguments of the call, a record named like the           *)
(*            parameters of the Python function;                           *)
(*   ret    - a record: op (the function that ran), ok (FALSE when it      *)
(*            raised), val (the value returned) or err (the exception);    *)
(*   warned - the warnings issued through warnings.warn, in order.         *)
(*                                                                         *)
(* Python strings are sequences of one-character strings; Python lists and *)
(* tuples are sequences; list indices in values keep Python's 0-based      *)
(* numbering; None is the sequence <<"None">>, which no string equals; an  *)
(* optional list argument is <<>> when it is None and <<list>> when it is  *)
(* given.                                                                  *)
(***************************************************************************)
EXTENDS Integers, Sequences, FiniteSets, TLC

VARIABLES pc, args, ret, warned

vars == <<pc, args, ret, warned>>

None == <<"None">>

Returned(op, v) == [op |-> op, ok |-> TRUE, val |-> v]

Raised(op, e) == [op |-> op, ok |-> FALSE, err |-> e]

NoRet == [op |-> "", ok |-> FALSE, err |-> ""]

(***************************************************************************)
(* Generic list helpers.                                                   *)
(***************************************************************************)
Range(s) == {s[i] : i \in 1..Len(s)}

Min(S) == CHOOSE x \in S : \A y \in S : x <= y

Max(S) == CHOOSE x \in S : \A y \in S : x >= y

\* sorted(S) for a set of integers
RECURSIVE SortedSet(_)
SortedSet(S) == IF S = {} THEN <<>> ELSE <<Min(S)>> \o SortedSet(S \ {Min(S)})

\* all sequences over S of length 0..n
SeqsUpTo(S, n) == UNION {[1..k -> S] : k \in 0..n}

\* list(mapping.values()) up to order, for checks that ignore the order
RECURSIVE SeqOfSet(_)
SeqOfSet(S) ==
    IF S = {} THEN <<>>
    ELSE LET x == CHOOSE y \in S : TRUE IN <<x>> \o SeqOfSet(S \ {x})

dict_values(mapping) == SeqOfSet({mapping[k] : k \in DOMAIN mapping})

\* tuple comparison a > b of Python, for tuples of integers of equal length
TupleGreater(a, b) ==
    \E k \in 1..Len(a) : (\A j \in 1..(k - 1) : a[j] = b[j]) /\ a[k] > b[k]

(***************************************************************************)
(* Span consolidator: decisor.py (spans.py holds the same code).           *)
(***************************************************************************)
\* [(eos - bos) for bos, eos in spans]
span_lengths(spans) == [i \in 1..Len(spans) |-> spans[i][2] - spans[i][1]]

\* the filter of the loop: the span (bos, eos) is discarded after (max_bos, max_eos) was taken
discards(max_bos, max_eos, bos, eos) ==
    (max_bos <= bos /\ bos < max_eos) \/ (max_bos < eos /\ eos <= max_eos)

\* sorted(items, reverse=True): items are <<key tuple, span>>, keys pairwise distinct
RECURSIVE sorted_reverse(_)
sorted_reverse(S) ==
    IF S = {} THEN <<>>
    ELSE LET top == CHOOSE x \in S : \A y \in S \ {x} : TupleGreater(x[1], y[1])
         IN  <<top>> \o sorted_reverse(S \ {top})

\* the while loop: take the head, drop what it discards, until nothing is left
RECURSIVE consolidate_loop(_, _)
consolidate_loop(items, index) ==
    IF items = <<>> THEN index
    ELSE LET head == items[1]
             max_idx == head[1][Len(head[1])]
             rest == SelectSeq(Tail(items),
                               LAMBDA it : ~discards(head[2][1], head[2][2], it[2][1], it[2][2]))
         IN  consolidate_loop(rest, index \o <<-max_idx>>)

\* consolidate_spans(spans, *scores): scores is the list of criteria
consolidate_spans(spans, scores) ==
    LET n == Len(spans)
        crit == IF scores = <<>> THEN <<span_lengths(spans)>> ELSE scores
        order == [i \in 1..n |-> -(i - 1)]
        all == crit \o <<order>>
        items == {<<[k \in 1..Len(all) |-> all[k][i]], spans[i]>> : i \in 1..n}
    IN  IF \E k \in 1..Len(crit) : Len(crit[k]) # n
        THEN Raised("consolidate", "ValueError")
        ELSE Returned("consolidate",
                      SortedSet(Range(consolidate_loop(sorted_reverse(items), <<>>))))

\* consolidate(spans, scores=None, priors=None, length=True)
consolidate(spans, scores, priors, length) ==
    LET c1 == IF length = FALSE THEN <<>> ELSE <<span_lengths(spans)>>
        c2 == IF scores = <<>> THEN c1 ELSE <<scores[1]>> \o c1
        c3 == IF priors = <<>> THEN c2 ELSE <<priors[1]>> \o c2
    IN  consolidate_spans(spans, c3)

\* ---- bounds and inputs of the consolidator
MaxSpans == 2

MaxPos == 3

ScoreValues == {1, 2}

SpanSet == {<<b, e>> : b \in 0..MaxPos, e \in 0..MaxPos} \ {<<b, e>> \in (0..MaxPos) \X (0..MaxPos) : b >= e}

OptScores(n) == {<<>>} \cup {<<s>> : s \in [1..n -> ScoreValues]}

InitConsolidate ==
    /\ pc = "call"
    /\ \E sp \in SeqsUpTo(SpanSet, MaxSpans) :
         \E sc \in OptScores(Len(sp)), pr \in OptScores(Len(sp)), ln \in BOOLEAN :
            args = [spans |-> sp, scores |-> sc, priors |-> pr, length |-> ln]
    /\ ret = NoRet
    /\ warned = <<>>

Consolidate ==
    /\ pc = "call"
    /\ ret' = consolidate(args.spans, args.scores, args.priors, args.length)
    /\ pc' = "done"
    /\ UNCHANGED <<args, warned>>

NextConsolidate == Consolidate

SpecConsolidate == InitConsolidate /\ [][NextConsolidate]_vars

(***************************************************************************)
(* C1. The claim as stated: no two spans selected by consolidate overlap,  *)
(* where two spans overlap when their half-open ranges share a position    *)
(* (a span that strictly contains another overlaps it).                    *)
(* The code's filter only tests whether an end point of the later span     *)
(* falls inside the taken span, so a lower-ranked span that strictly       *)
(* contains the taken span is kept: spans [(1,2),(0,3)] with scores [2,1]  *)
(* give [0,1].                                                             *)
(***************************************************************************)
Overlap(a, b) == a[1] < b[2] /\ b[1] < a[2]

C1_NoOverlap ==
    (pc = "done" /\ ret.op = "consolidate" /\ ret.ok) =>
        \A i \in Range(ret.val) : \A j \in Range(ret.val) :
            i # j => ~Overlap(args.spans[i + 1], args.spans[j + 1])

(***************************************************************************)
(* The composite key of the span at input position i (0-based), as the     *)
(* consolidator is documented: the priority if priorities are given, then  *)
(* the score if scores are given, then the span length if the length flag  *)
(* is true, then the negated input position.                               *)
(***************************************************************************)
CompositeKey(i) ==
    (IF args.priors = <<>> THEN <<>> ELSE <<args.priors[1][i + 1]>>)
    \o (IF args.scores = <<>> THEN <<>> ELSE <<args.scores[1][i + 1]>>)
    \o (IF args.length
        THEN <<args.spans[i + 1][2] - args.spans[i + 1][1]>> ELSE <<>>)
    \o <<-i>>

Consolidated == pc = "done" /\ ret.op = "consolidate" /\ ret.ok

(***************************************************************************)
(* C11. Every span that consolidate leaves out overlaps a returned span    *)
(* whose composite key is strictly greater, so that no omitted span can be *)
(* added, and no returned span exchanged for a higher-ranked omitted one,  *)
(* without an overlap.                                                     *)
(* With length=False and neither scores nor priorities consolidate_spans   *)
(* gets no criterion and ranks by span length all the same: spans          *)
(* [(0,1),(0,2)] give [1], and the omitted span 0 has the greater key.     *)
(***************************************************************************)
C11_OmittedSpansAreDominated ==
    Consolidated =>
        \A i \in 0..(Len(args.spans) - 1) :
            i \notin Range(ret.val) =>
                \E j \in Range(ret.val) :
                    /\ Overlap(args.spans[i + 1], args.spans[j + 1])
                    /\ TupleGreater(CompositeKey(j), CompositeKey(i))

(***************************************************************************)
(* C12. consolidate ranks the spans by the composite key: a span is        *)
(* returned exactly when no returned span of greater key discards it (the  *)
(* greedy selection in descending key order); with length=False the span   *)
(* length is no part of the key, with or without scores and priorities;    *)
(* and consolidate([(0,3),(2,5),(5,7)]) is [0,2].                          *)
(* The scenario and every call with length=True or with scores or          *)
(* priorities agree; with length=False alone the length still ranks.       *)
(***************************************************************************)
C12_RankedByCompositeKey ==
    /\ consolidate(<< <<0, 3>>, <<2, 5>>, <<5, 7>> >>, <<>>, <<>>, TRUE)
         = Returned("consolidate", <<0, 2>>)
    /\ Consolidated =>
        \A i \in 0..(Len(args.spans) - 1) :
            i \in Range(ret.val) <=>
                ~\E j \in Range(ret.val) :
                    /\ TupleGreater(CompositeKey(j), CompositeKey(i))
                    /\ discards(args.spans[j + 1][1], args.spans[j + 1][2],
                                args.spans[i + 1][1], args.spans[i + 1][2])

(***************************************************************************)
(* Span grouping: decisor.py (spans.py holds the same code).               *)
(***************************************************************************)
\* the key of sorted(spans, key=lambda x: (x[0], -x[1]))
group_key(span) == <<span[1], -span[2]>>

\* s without its element at position i
remove_at(s, i) == SubSeq(s, 1, i - 1) \o SubSeq(s, i + 1, Len(s))

\* the position sorted() takes first: the first one of the least key
first_least(spans) ==
    Min({i \in 1..Len(spans) :
            \A j \in 1..Len(spans) :
                ~TupleGreater(group_key(spans[i]), group_key(spans[j]))})

\* sorted(spans, key=lambda x: (x[0], -x[1])): a stable ascending sort
RECURSIVE sorted_spans(_)
sorted_spans(spans) ==
    IF spans = <<>> THEN <<>>
    ELSE <<spans[first_least(spans)]>>
         \o sorted_spans(remove_at(spans, first_least(spans)))

\* a variant of the condition that wants the span to begin after the group
joins_after(g, bos, eos) == g[1] < bos /\ bos < g[2]

\* the condition of the inner loop: the span touches the group (bog, eog, group)
joins(g, bos, eos) ==
    (g[1] <= bos /\ bos < g[2]) \/ (g[1] < eos /\ eos <= g[2])

\* the inner loop with its else branch: extend the first group the span
\* joins, or append a group of its own
add_to_groups(groups, idx, bos, eos) ==
    IF \E i \in 1..Len(groups) : joins(groups[i], bos, eos)
    THEN [groups EXCEPT ![Min({i \in 1..Len(groups) : joins(groups[i], bos, eos)})] =
            <<Min({@[1], bos}), Max({@[2], eos}), @[3] \o <<idx>> >>]
    ELSE groups \o << <<bos, eos, <<idx>> >> >>

\* the outer loop over enumerate(sorted(...)), from position k (1-based) on
RECURSIVE group_loop(_, _, _)
group_loop(ordered, k, groups) ==
    IF k > Len(ordered) THEN groups
    ELSE group_loop(ordered, k + 1,
                    add_to_groups(groups, k - 1, ordered[k][1], ordered[k][2]))

\* [group for _, _, group in groups]
group_lists(groups) == [i \in 1..Len(groups) |-> groups[i][3]]

\* group_spans(spans)
group_spans(spans) ==
    Returned("group_spans", group_lists(group_loop(sorted_spans(spans), 1, <<>>)))

\* ---- bounds and inputs of the grouping
MaxGroupSpans == 3

InitGroup ==
    /\ pc = "call"
    /\ \E sp \in SeqsUpTo(SpanSet, MaxGroupSpans) : args = [spans |-> sp]
    /\ ret = NoRet
    /\ warned = <<>>

GroupSpans ==
    /\ pc = "call"
    /\ ret' = group_spans(args.spans)
    /\ pc' = "done"
    /\ UNCHANGED <<args, warned>>

NextGroup == GroupSpans

SpecGroup == InitGroup /\ [][NextGroup]_vars

\* the spans at input positions i and j (0-based) are linked by a chain of
\* pairwise-overlapping spans of the input
RECURSIVE Reach(_, _, _)
Reach(spans, S, n) ==
    IF n = 0 THEN S
    ELSE Reach(spans,
               S \cup {j \in 0..(Len(spans) - 1) :
                          \E i \in S : Overlap(spans[i + 1], spans[j + 1])},
               n - 1)

Linked(spans, i, j) == j \in Reach(spans, {i}, Len(spans))

Grouped == pc = "done" /\ ret.op = "group_spans" /\ ret.ok

\* group positions cover 0..n-1, each position once
GroupsPartition(groups, n) ==
    \A p \in 0..(n - 1) :
        Cardinality({<<g, k>> \in (1..Len(groups)) \X (1..n) :
                        k <= Len(groups[g]) /\ groups[g][k] = p}) = 1

\* two positions share a group exactly when their spans are linked
GroupsAreComponents(groups, spans) ==
    \A i \in 0..(Len(spans) - 1) : \A j \in 0..(Len(spans) - 1) :
        (\E g \in 1..Len(groups) : i \in Range(groups[g]) /\ j \in Range(groups[g]))
            <=> Linked(spans, i, j)

(***************************************************************************)
(* C13. For spans in any order group_spans returns groups of input         *)
(* positions: every position 0..n-1 is in exactly one group, and two input *)
(* spans share a group exactly when a chain of pairwise-overlapping spans  *)
(* links them.                                                             *)
(* The positions group_spans returns are those of enumerate(sorted(spans)),*)
(* not of the input: [(0,1),(1,2),(0,1)] gives [[0,1],[2]] although the    *)
(* input spans 0 and 1 are apart and 0 and 2 overlap.                      *)
(***************************************************************************)
C13_GroupsOfInputPositions ==
    Grouped =>
        /\ GroupsPartition(ret.val, Len(args.spans))
        /\ GroupsAreComponents(ret.val, args.spans)

\* the spans in ascending order of begin and, for equal begins, descending
\* order of end
InGroupOrder(spans) ==
    \A i \in 1..Len(spans) : \A j \in (i + 1)..Len(spans) :
        \/ spans[i][1] < spans[j][1]
        \/ spans[i][1] = spans[j][1] /\ spans[i][2] >= spans[j][2]

\* the permutations of a list
IsPermutation(s, t) ==
    /\ Len(s) = Len(t)
    /\ \A x \in Range(s) \cup Range(t) :
          Cardinality({i \in 1..Len(s) : s[i] = x})
            = Cardinality({i \in 1..Len(t) : t[i] = x})

\* C13 as the code has it: the groups are groups of positions in the list
\* of spans ordered by (begin ascending, end descending); each position
\* 0..n-1 is in exactly one group, two spans of the ordered list share a
\* group exactly when a chain of overlapping spans links them, and for an
\* input already in that order the positions are input positions.
C13_GroupsOfSortedPositions ==
    Grouped =>
        /\ GroupsPartition(ret.val, Len(args.spans))
        /\ \A ordered \in [1..Len(args.spans) -> Range(args.spans)] :
              (IsPermutation(ordered, args.spans) /\ InGroupOrder(ordered))
                  => GroupsAreComponents(ret.val, ordered)

\* an input out of order whose overlapping spans are first and last
C13_Witness ==
    /\ Grouped
    /\ Len(args.spans) = 3
    /\ ~InGroupOrder(args.spans)
    /\ Overlap(args.spans[1], args.spans[3])
    /\ ~Overlap(args.spans[1], args.spans[2])
    /\ ~Overlap(args.spans[2], args.spans[3])
    /\ Len(ret.val) = 2

(***************************************************************************)
(* Alignment engine: spans.py.  A text and a token are sequences of        *)
(* characters; character offsets are 0-based as in Python.                 *)
(***************************************************************************)
IsSpace(c) == c = " "

\* "".join(text.split()) of a string
strip_join(text) == SelectSeq(text, LAMBDA c : ~IsSpace(c))

\* "".join(tokens) of a list of strings
RECURSIVE join(_)
join(tokens) == IF tokens = <<>> THEN <<>> ELSE Head(tokens) \o join(Tail(tokens))

\* " ".join(tokens)
RECURSIVE join_space(_)
join_space(tokens) ==
    IF tokens = <<>> THEN <<>>
    ELSE IF Len(tokens) = 1 THEN tokens[1]
    ELSE tokens[1] \o <<" ">> \o join_space(Tail(tokens))

\* check_text(text, tokens): TRUE when it does not raise
check_text(value, other) == strip_join(value) = join(other)

\* text[i:i+len(token)] == token, i 0-based
occurs_at(text, token, i) ==
    /\ i + Len(token) <= Len(text)
    /\ \A k \in 1..Len(token) : text[i + k] = token[k]

\* a search that starts at the beginning of the text whatever the pointer
index_anywhere(text, token, pointer) ==
    LET hits == {i \in 0..Len(text) : occurs_at(text, token, i)}
    IN  IF hits = {} THEN -1 ELSE Min(hits)

\* text.index(token, pointer): the first offset >= pointer, or -1 for ValueError
index_from(text, token, pointer) ==
    LET hits == {i \in pointer..Len(text) : occurs_at(text, token, i)}
    IN  IF hits = {} THEN -1 ELSE Min(hits)

\* the loop of create_spans: <<ok, indices>>
RECURSIVE create_spans_loop(_, _, _, _)
create_spans_loop(tokens, text, pointer, indices) ==
    IF tokens = <<>> THEN <<TRUE, indices>>
    ELSE LET idx == index_from(text, Head(tokens), pointer)
         IN  IF idx < 0 THEN <<FALSE, indices>>
             ELSE create_spans_loop(Tail(tokens), text, idx + Len(Head(tokens)),
                                    indices \o <<(<<idx, idx + Len(Head(tokens))>>)>>)

\* create_spans(tokens, text)
create_spans(tokens, text) ==
    IF ~check_text(text, tokens) THEN Raised("create_spans", "ValueError")
    ELSE LET r == create_spans_loop(tokens, text, 0, <<>>)
         IN  IF r[1] THEN Returned("create_spans", r[2])
             ELSE Raised("create_spans", "ValueError")

\* align_spans(source, target)
align_spans(source, target) ==
    IF source = target THEN Returned("align_spans", source)
    ELSE IF source = <<>> \/ target = <<>> THEN Raised("align_spans", "ValueError")
    ELSE LET source_bos == {source[i][1] : i \in 1..Len(source)}
             source_eos == {source[i][2] : i \in 1..Len(source)}
             target_bos == {target[i][1] : i \in 1..Len(target)}
             target_eos == {target[i][2] : i \in 1..Len(target)}
             shared_bos == SortedSet(source_bos \cap target_bos)
             shared_eos == SortedSet(source_eos \cap target_eos)
         IN  IF Min(source_bos) # Min(target_bos) \/ Max(source_eos) # Max(target_eos)
             THEN Raised("align_spans", "ValueError")
             ELSE IF Len(shared_bos) # Len(shared_eos)
             THEN Raised("align_spans", "ValueError")
             ELSE Returned("align_spans",
                           [i \in 1..Len(shared_bos) |-> <<shared_bos[i], shared_eos[i]>>])

\* select_spans(spans, bos, eos): 0-based indices of the spans inside [bos, eos]
RECURSIVE select_from(_, _, _, _)
select_from(spans, bos, eos, i) ==
    IF i > Len(spans) THEN <<>>
    ELSE (IF spans[i][1] >= bos /\ spans[i][2] <= eos THEN <<i - 1>> ELSE <<>>)
         \o select_from(spans, bos, eos, i + 1)

select_spans(spans, bos, eos) == select_from(spans, bos, eos, 1)

\* sum(map(len, index))
RECURSIVE sum_len(_)
sum_len(index) == IF index = <<>> THEN 0 ELSE Len(Head(index)) + sum_len(Tail(index))

\* the target-coverage assertion of align compares len(target) with the source index
target_covered(target, src_index, tgt_index) == Len(target) = sum_len(src_index)

\* align(source, target, tokens): tokens is <<>> for None, <<text>> for a string
align(source, target, tokens) ==
    LET text == IF tokens = <<>> THEN join_space(source) ELSE tokens[1]
    IN  IF source = target
        THEN Returned("align", [i \in 1..Len(source) |-> <<(<<i - 1>>), (<<i - 1>>)>>])
        ELSE
        LET src_spans == create_spans(source, text)
            tgt_spans == create_spans(target, text)
        IN  IF ~src_spans.ok \/ ~tgt_spans.ok THEN Raised("align", "ValueError")
            ELSE
            LET aln_spans == align_spans(src_spans.val, tgt_spans.val)
            IN  IF ~aln_spans.ok THEN Raised("align", "ValueError")
                ELSE
                LET cells == aln_spans.val
                    src_index == [i \in 1..Len(cells) |->
                                     select_spans(src_spans.val, cells[i][1], cells[i][2])]
                    tgt_index == [i \in 1..Len(cells) |->
                                     select_spans(tgt_spans.val, cells[i][1], cells[i][2])]
                IN  IF Len(source) # sum_len(src_index)
                    THEN Raised("align", "AssertionError")
                    ELSE IF ~target_covered(target, src_index, tgt_index)
                    THEN Raised("align", "AssertionError")
                    ELSE Returned("align",
                                  [i \in 1..Len(cells) |-> <<src_index[i], tgt_index[i]>>])

\* ---- bounds and inputs of the alignment engine
MaxText == 3

MaxTokens == 3

Letters == {"a", "b"}

Texts == SeqsUpTo(Letters \cup {" "}, MaxText)

\* every way to cut the string s into k tokens, empty tokens included
RECURSIVE Cuts(_, _)
Cuts(s, k) ==
    IF k = 0 THEN (IF s = <<>> THEN {<<>>} ELSE {})
    ELSE UNION {{<<SubSeq(s, 1, n)>> \o rest : rest \in Cuts(SubSeq(s, n + 1, Len(s)), k - 1)} :
                   n \in 0..Len(s)}

Tokenizations(s) == UNION {Cuts(s, k) : k \in 0..MaxTokens}

\* token lists for a text: its tokenizations, and some lists of other characters
TokenLists(text) ==
    Tokenizations(strip_join(text))
        \cup {<<>>, <<strip_join(text) \o <<"a">> >>, <<(<<"b">>), strip_join(text)>>}

InitAlign ==
    /\ pc = "call"
    /\ \E text \in Texts : \E src \in TokenLists(text), tgt \in TokenLists(text) :
         \E tk \in {<<>>, <<text>>} :
            args = [source |-> src, target |-> tgt, tokens |-> tk]
    /\ ret = NoRet
    /\ warned = <<>>

Align ==
    /\ pc = "call"
    /\ ret' = align(args.source, args.target, args.tokens)
    /\ pc' = "done"
    /\ UNCHANGED <<args, warned>>

NextAlign == Align

SpecAlign == InitAlign /\ [][NextAlign]_vars

\* ---- what the claims about align speak of
AlignText == IF args.tokens = <<>> THEN join_space(args.source) ELSE args.tokens[1]

\* offsets, in the text without whitespace, at which a token of the list begins or ends
RECURSIVE Offsets(_, _)
Offsets(tokens, at) ==
    IF tokens = <<>> THEN <<>>
    ELSE <<(<<at, at + Len(Head(tokens))>>)>> \o Offsets(Tail(tokens), at + Len(Head(tokens)))

Boundaries(tokens) ==
    {0} \cup {Offsets(tokens, 0)[i][2] : i \in 1..Len(tokens)}

\* the cells cut at the offsets that are token boundaries in both tokenizations
CellsOf(source, target) ==
    LET cut == SortedSet(Boundaries(source) \cap Boundaries(target))
        so == Offsets(source, 0)
        to == Offsets(target, 0)
    IN  [j \in 1..(Len(cut) - 1) |->
            <<select_spans(so, cut[j], cut[j + 1]), select_spans(to, cut[j], cut[j + 1])>>]

\* the indices of one side of an alignment, cell after cell
RECURSIVE Flat(_, _)
Flat(alignment, side) ==
    IF alignment = <<>> THEN <<>> ELSE Head(alignment)[side] \o Flat(Tail(alignment), side)

\* each of 0..n-1 exactly once, and nothing else
ExactlyOnce(indices, n) ==
    /\ Len(indices) = n
    /\ Range(indices) = 0..(n - 1)

(***************************************************************************)
(* C2. The claim as stated, on the inputs whose tokens all index onto the  *)
(* text: when both token lists spell the text without its whitespace,      *)
(* align returns, also for lists of different lengths, and returns the     *)
(* cells cut at the shared token boundaries.                               *)
(* The code's target-coverage assertion compares len(target) with the      *)
(* number of selected source tokens, so align raises AssertionError for    *)
(* every pair of tokenizations of different lengths: source ['ab'], target *)
(* ['a','b'], text 'ab' (and the spec's ['aa','a','bbb'] against           *)
(* ['a','aa','b','bb'] on 'aaa bbb').                                      *)
(***************************************************************************)
C2_AlignReturnsCells ==
    (/\ pc = "done" /\ ret.op = "align"
     /\ create_spans(args.source, AlignText).ok
     /\ create_spans(args.target, AlignText).ok
     /\ \A i \in 1..Len(args.source) : args.source[i] # <<>>
     /\ \A i \in 1..Len(args.target) : args.target[i] # <<>>)
        => (ret.ok /\ ret.val = CellsOf(args.source, args.target))

(***************************************************************************)
(* C3. The claim as stated: in every alignment align returns, each source  *)
(* index 0..len(source)-1 and each target index 0..len(target)-1 occurs in *)
(* exactly one cell.                                                       *)
(* The target side is never checked (the assertion reads the source index  *)
(* twice), so align(['a','b',''], ['a','','b'], 'ab') returns              *)
(* [([0],[0,1]),([1,2],[1,2])], where target token 1 is in two cells.      *)
(***************************************************************************)
C3_AlignCoversOnce ==
    (pc = "done" /\ ret.op = "align" /\ ret.ok) =>
        /\ ExactlyOnce(Flat(ret.val, 1), Len(args.source))
        /\ ExactlyOnce(Flat(ret.val, 2), Len(args.target))

(***************************************************************************)
(* Scheme engine (parser.py).  A token is a label-affix pair               *)
(* <<label, affix>>; labels, affixes and scheme names are strings, hence   *)
(* sequences of characters.                                                *)
(***************************************************************************)
IO == <<"I", "O">>

IOB == <<"I", "O", "B">>

IOE == <<"I", "O", "E">>

IOBE == <<"I", "O", "B", "E">>

IOBES == <<"I", "O", "B", "E", "S">>

IOB1 == <<"I", "O", "B", "1">>

IOE1 == <<"I", "O", "E", "1">>

Outside == <<None, <<"O">> >>

Get(mapping, key, default) ==
    IF key \in DOMAIN mapping THEN mapping[key] ELSE default

\* a begin-of-chunk test without the rule for I and E after E, S and O
isa_boc_marked(prev_label, prev_affix, curr_label, curr_affix) ==
    \/ curr_affix \in {<<"B">>, <<"S">>}
    \/ prev_label # curr_label /\ curr_affix # <<"O">>

isa_boc(prev_label, prev_affix, curr_label, curr_affix) ==
    \/ curr_affix \in {<<"B">>, <<"S">>}
    \/ prev_affix \in {<<"E">>, <<"S">>, <<"O">>} /\ curr_affix \in {<<"I">>, <<"E">>}
    \/ prev_label # curr_label /\ curr_affix # <<"O">>

\* an end-of-chunk test that does not look at the labels
isa_eoc_by_affix(prev_label, prev_affix, curr_label, curr_affix) ==
    \/ prev_affix \in {<<"E">>, <<"S">>}
    \/ prev_affix \in {<<"B">>, <<"I">>} /\ curr_affix \in {<<"B">>, <<"S">>, <<"O">>}

isa_eoc(prev_label, prev_affix, curr_label, curr_affix) ==
    \/ prev_affix \in {<<"E">>, <<"S">>}
    \/ prev_affix \in {<<"B">>, <<"I">>} /\ curr_affix \in {<<"B">>, <<"S">>, <<"O">>}
    \/ prev_label # curr_label /\ prev_affix # <<"O">>

\* pairwise([(None, "O")] + data)
get_boc(data) ==
    [i \in 1..Len(data) |->
        LET prev == IF i = 1 THEN Outside ELSE data[i - 1]
        IN  isa_boc(prev[1], prev[2], data[i][1], data[i][2])]

\* pairwise(data + [(None, "O")])
get_eoc(data) ==
    [i \in 1..Len(data) |->
        LET curr == IF i = Len(data) THEN Outside ELSE data[i + 1]
        IN  isa_eoc(data[i][1], data[i][2], curr[1], curr[2])]

schemes ==
    (IO :> (<<"I">> :> <<"I">> @@ <<"O">> :> <<"O">> @@ <<"B">> :> <<"I">>
            @@ <<"E">> :> <<"I">> @@ <<"S">> :> <<"I">>))
    @@ (IOB :> (<<"I">> :> <<"I">> @@ <<"O">> :> <<"O">> @@ <<"B">> :> <<"B">>
                @@ <<"E">> :> <<"I">> @@ <<"S">> :> <<"B">>))
    @@ (IOE :> (<<"I">> :> <<"I">> @@ <<"O">> :> <<"O">> @@ <<"B">> :> <<"I">>
                @@ <<"E">> :> <<"E">> @@ <<"S">> :> <<"E">>))
    @@ (IOBE :> (<<"I">> :> <<"I">> @@ <<"O">> :> <<"O">> @@ <<"B">> :> <<"B">>
                 @@ <<"E">> :> <<"E">> @@ <<"S">> :> <<"B">>))
    @@ (IOBES :> (<<"I">> :> <<"I">> @@ <<"O">> :> <<"O">> @@ <<"B">> :> <<"B">>
                  @@ <<"E">> :> <<"E">> @@ <<"S">> :> <<"S">>))

get_scheme(scheme) ==
    IF scheme \notin DOMAIN schemes
    THEN Raised("get_scheme", "ValueError")
    ELSE Returned("get_scheme", schemes[scheme])

\* scheme.get(affix) on what get_scheme returned
scheme_get(found, affix) ==
    IF ~found.ok THEN Raised("get_affix", found.err)
    ELSE Returned("get_affix", Get(found.val, affix, None))

get_affix(affix, scheme) == scheme_get(get_scheme(scheme), affix)

\* an affix generator that ignores the boundary flags
gen_affix_inside(label, boc, eoc, scheme) ==
    get_affix(IF label = None THEN <<"O">> ELSE <<"I">>, scheme)

gen_affix(label, boc, eoc, scheme) ==
    LET affix == IF label = None THEN <<"O">>
                 ELSE IF boc /\ ~eoc THEN <<"B">>
                 ELSE IF ~boc /\ eoc THEN <<"E">>
                 ELSE IF boc /\ eoc THEN <<"S">>
                 ELSE <<"I">>
    IN  get_affix(affix, scheme)

\* a change-of-chunk test that never compares the labels
isa_coc_any_label(prev_label, prev_affix, curr_label, curr_affix, same_label) ==
    /\ isa_boc(prev_label, prev_affix, curr_label, curr_affix)
    /\ isa_eoc(prev_label, prev_affix, curr_label, curr_affix)

isa_coc(prev_label, prev_affix, curr_label, curr_affix, same_label) ==
    /\ isa_boc(prev_label, prev_affix, curr_label, curr_affix)
    /\ isa_eoc(prev_label, prev_affix, curr_label, curr_affix)
    /\ (same_label => prev_label = curr_label)

\* [False] + [isa_coc(prev, curr) for prev, curr in pairwise(data)]
get_coc_boc(data, same_label) ==
    IF data = <<>> THEN <<FALSE>>
    ELSE [i \in 1..Len(data) |->
            /\ i > 1
            /\ isa_coc(data[i - 1][1], data[i - 1][2], data[i][1], data[i][2],
                       same_label)]

\* [isa_coc(prev, curr) for prev, curr in pairwise(data)] + [False]
get_coc_eoc(data, same_label) ==
    IF data = <<>> THEN <<FALSE>>
    ELSE [i \in 1..Len(data) |->
            /\ i < Len(data)
            /\ isa_coc(data[i][1], data[i][2], data[i + 1][1], data[i + 1][2],
                       same_label)]

\* the result r of a callee, reported under the name of the caller
Renamed(op, r) == [r EXCEPT !.op = op]

\* [(label, "I" if (affix == mark and flag is False) else affix)
\*  for flag, (label, affix) in zip(coc, outs, strict=True)]:
\* zip raises ValueError when the two lists differ in length
soften(op, outs, coc, mark) ==
    IF Len(coc) # Len(outs) THEN Raised(op, "ValueError")
    ELSE Returned(op, [i \in 1..Len(outs) |->
                        IF outs[i][2] = mark /\ ~coc[i]
                        THEN <<outs[i][1], <<"I">> >> ELSE outs[i]])

\* maps.get(scheme, scheme)
maps(scheme) ==
    IF scheme = IOB1 THEN IOB ELSE IF scheme = IOE1 THEN IOE ELSE scheme

\* the first comprehension of convert: one gen_affix call per token
gen_outs(tokens, boc, eoc, scheme) ==
    [i \in 1..Len(tokens) |-> gen_affix(tokens[i][1], boc[i], eoc[i], scheme)]

with_affixes(tokens, gen) ==
    [i \in 1..Len(tokens) |-> <<tokens[i][1], gen[i].val>>]

\* convert after its first comprehension: the IOB1 and IOE1 passes
convert_outs(tokens, gen, scheme, labels) ==
    IF \E i \in 1..Len(tokens) : ~gen[i].ok
    THEN Raised("convert", "ValueError")
    ELSE IF scheme = IOB1
    THEN soften("convert", with_affixes(tokens, gen),
                get_coc_boc(tokens, labels), <<"B">>)
    ELSE IF scheme = IOE1
    THEN soften("convert", with_affixes(tokens, gen),
                get_coc_eoc(tokens, labels), <<"E">>)
    ELSE Returned("convert", with_affixes(tokens, gen))

\* convert(tokens, scheme, labels=True)
convert(tokens, scheme, labels) ==
    convert_outs(tokens,
                 gen_outs(tokens, get_boc(tokens), get_eoc(tokens), maps(scheme)),
                 scheme, labels)

check_affix(data) ==
    IF \E i \in 1..Len(data) :
            data[i] \notin {<<"I">>, <<"O">>, <<"B">>, <<"E">>, <<"S">>}
    THEN Raised("check_affix", "ValueError")
    ELSE Returned("check_affix", None)

\* "_, affix_list = list(map(list, zip(*data)))" needs data to be non-empty
check_scheme(data) ==
    IF data = <<>> THEN Raised("check_scheme", "ValueError")
    ELSE Renamed("check_scheme",
                 check_affix([i \in 1..Len(data) |-> data[i][2]]))

(***************************************************************************)
(* Tag codec (parser.py).  A tag format is the record                      *)
(* [kind, glue, otag] of the keyword arguments of parse_tag and merge_tag. *)
(***************************************************************************)
DefaultFormat == [kind |-> "prefix", glue |-> <<"-">>, otag |-> <<"O">>]

\* tag.split(glue) for a non-empty glue
RECURSIVE split(_, _)
split(tag, glue) ==
    LET idx == index_from(tag, glue, 0)
    IN  IF idx < 0 THEN <<tag>>
        ELSE <<SubSeq(tag, 1, idx)>>
             \o split(SubSeq(tag, idx + Len(glue) + 1, Len(tag)), glue)

reversed(parts) == [i \in 1..Len(parts) |-> parts[Len(parts) + 1 - i]]

\* str.split raises ValueError on an empty separator; unpacking "affix, label"
\* raises ValueError unless there are exactly two parts
unpack(tag, parts, otag) ==
    IF tag = otag THEN Returned("parse_tag", <<None, otag>>)
    ELSE IF Len(parts) # 2 THEN Raised("parse_tag", "ValueError")
    ELSE Returned("parse_tag", <<parts[2], parts[1]>>)

parse_tag(tag, kind, glue, otag) ==
    IF glue = <<>> THEN Raised("parse_tag", "ValueError")
    ELSE IF kind = "prefix" THEN unpack(tag, split(tag, glue), otag)
    ELSE unpack(tag, reversed(split(tag, glue)), otag)

\* a merge that writes the affix first whatever the kind
merge_tag_prefix(label, affix, kind, glue, otag) ==
    IF label = None THEN otag ELSE affix \o glue \o label

merge_tag(label, affix, kind, glue, otag) ==
    LET prefix == IF kind = "prefix" THEN affix ELSE label
        suffix == IF kind = "prefix" THEN label ELSE affix
    IN  IF label = None THEN otag ELSE prefix \o glue \o suffix

\* a list of results as one result: the first exception, or the list of values
collect(op, items) ==
    IF \E i \in 1..Len(items) : ~items[i].ok THEN Raised(op, "ValueError")
    ELSE Returned(op, [i \in 1..Len(items) |-> items[i].val])

parse_tags(data, fmt) ==
    collect("parse_tags",
            [i \in 1..Len(data) |->
                parse_tag(data[i], fmt.kind, fmt.glue, fmt.otag)])

merge_tags(data, fmt) ==
    [i \in 1..Len(data) |->
        merge_tag(data[i][1], data[i][2], fmt.kind, fmt.glue, fmt.otag)]

\* a relabelling that leaves the affix as it is
relabel_token_only(label, affix, labels, otag) ==
    <<Get(labels, label, label), affix>>

\* labels.get(label, label); the affix becomes otag when the label is removed
relabel_token(label, affix, labels, otag) ==
    LET new_label == Get(labels, label, label)
    IN  <<new_label, IF new_label = None THEN otag ELSE affix>>

reaffix_token(label, affix, morphs, otag) ==
    <<label, IF label = None THEN otag ELSE Get(morphs, affix, affix)>>

\* relabel(tokens, labels, otag="O")
relabel(tokens, labels, otag) ==
    [i \in 1..Len(tokens) |->
        relabel_token(tokens[i][1], tokens[i][2], labels, otag)]

\* reaffix(tokens, morphs, otag="O")
reaffix(tokens, morphs, otag) ==
    [i \in 1..Len(tokens) |->
        reaffix_token(tokens[i][1], tokens[i][2], morphs, otag)]

\* a check that lets every affix map pass
check_morphs_any(morphs) == Returned("check_morphs", None)

check_morphs(morphs) == Renamed("check_morphs", check_affix(dict_values(morphs)))

\* an optional argument is <<>> for None and <<value>> otherwise
relabel_opt(pairs, labels) ==
    IF labels = <<>> THEN pairs ELSE relabel(pairs, labels[1], <<"O">>)

reaffix_opt(pairs, morphs) ==
    IF morphs = <<>> THEN pairs ELSE reaffix(pairs, morphs[1], <<"O">>)

convert_opt(op, pairs, scheme) ==
    IF scheme = <<>> THEN Returned(op, pairs)
    ELSE Renamed(op, convert(pairs, scheme[1], TRUE))

\* parse after parse_tags: the check, then relabel, reaffix and convert
parse_pairs(tags, checked, labels, morphs, scheme) ==
    IF ~checked.ok THEN Raised("parse", checked.err)
    ELSE convert_opt("parse", reaffix_opt(relabel_opt(tags, labels), morphs), scheme)

parse_checks(tags, labels, morphs, scheme) ==
    IF ~tags.ok THEN Raised("parse", tags.err)
    ELSE IF morphs = <<>>
    THEN parse_pairs(tags.val, check_scheme(tags.val), labels, morphs, scheme)
    ELSE parse_pairs(tags.val, check_morphs(morphs[1]), labels, morphs, scheme)

\* parse(data, labels=None, morphs=None, scheme=None, **kwargs); kwargs is the
\* tag format
parse(data, labels, morphs, scheme, fmt) ==
    parse_checks(parse_tags(data, fmt), labels, morphs, scheme)

merge_pairs(converted, morphs, fmt) ==
    IF ~converted.ok THEN converted
    ELSE Returned("merge", merge_tags(reaffix_opt(converted.val, morphs), fmt))

\* merge(tokens, labels=None, morphs=None, scheme=None, **kwargs)
merge(tokens, labels, morphs, scheme, fmt) ==
    merge_pairs(convert_opt("merge", relabel_opt(tokens, labels), scheme), morphs, fmt)

(***************************************************************************)
(* Chunk extraction.  rebaser.py imports chunk from parser.py, which does  *)
(* not define it; it is modelled from the description of extractChunks:    *)
(* compute the begin and end flags, walk the sequence remembering the most *)
(* recent begin index, and emit (label of the first token, begin, end)     *)
(* whenever an end flag is seen.  A chunk is <<label, bos, eos>>.          *)
(***************************************************************************)
RECURSIVE chunk_walk(_, _, _, _, _)
chunk_walk(tokens, boc, eoc, i, begin) ==
    IF i > Len(tokens) THEN <<>>
    ELSE LET bos == IF boc[i] THEN i - 1 ELSE begin
         IN  (IF eoc[i] THEN <<(<<tokens[bos + 1][1], bos, i>>)>> ELSE <<>>)
             \o chunk_walk(tokens, boc, eoc, i + 1, bos)

chunk(tokens) == chunk_walk(tokens, get_boc(tokens), get_eoc(tokens), 1, 0)

(***************************************************************************)
(* Scheme alteration (schemer.py) and chunk expansion (xcoder.py).         *)
(***************************************************************************)
removesuffix1(scheme) ==
    IF scheme # <<>> /\ scheme[Len(scheme)] = "1"
    THEN SubSeq(scheme, 1, Len(scheme) - 1) ELSE scheme

\* affix: (int(boc), int(eoc), int(label is not None))
mapping ==
    <<"I">> :> <<0, 0, 1>> @@ <<"O">> :> <<0, 0, 0>> @@ <<"B">> :> <<1, 0, 1>>
    @@ <<"E">> :> <<0, 1, 1>> @@ <<"S">> :> <<1, 1, 1>>

int(flag) == IF flag THEN 1 ELSE 0

\* morphs of alter: from the flag codes to the affix of the scheme
affix_of(codes) == CHOOSE a \in DOMAIN mapping : mapping[a] = codes

morphs_of(scheme) ==
    [codes \in {mapping[a] : a \in DOMAIN mapping} |->
        Get(schemes[scheme], affix_of(codes), affix_of(codes))]

\* the first comprehension of alter
recode(tokens, boc, eoc, morphs) ==
    [i \in 1..Len(tokens) |->
        <<tokens[i][1],
          Get(morphs, <<int(boc[i]), int(eoc[i]), int(tokens[i][1] # None)>>,
              tokens[i][2])>>]

\* the IOB1 and IOE1 passes of alter, on the recoded tokens
alter_coc(tokens, coding) ==
    IF coding = IOB1
    THEN soften("alter", tokens, get_coc_boc(tokens, TRUE), <<"B">>)
    ELSE IF coding = IOE1
    THEN soften("alter", tokens, get_coc_eoc(tokens, TRUE), <<"E">>)
    ELSE Returned("alter", tokens)

alter_pairs(tokens, coding) ==
    alter_coc(recode(tokens, get_boc(tokens), get_eoc(tokens),
                     morphs_of(removesuffix1(coding))),
              coding)

alter_merge(altered, fmt) ==
    IF ~altered.ok THEN altered
    ELSE Renamed("alter", merge(altered.val, <<>>, <<>>, <<>>, fmt))

alter_tags(parsed, coding, fmt) ==
    IF ~parsed.ok THEN Raised("alter", parsed.err)
    ELSE alter_merge(alter_pairs(parsed.val, coding), fmt)

\* alter(data, scheme="IOBES", **kwargs); strs tells whether the items of
\* data are tag strings (isinstance(token, str)), which holds for an empty list
alter(data, scheme, strs, fmt) ==
    IF removesuffix1(scheme) \notin DOMAIN schemes
    THEN Raised("alter", "ValueError")
    ELSE IF strs \/ data = <<>>
    THEN alter_tags(parse(data, <<>>, <<>>, <<>>, fmt), scheme, fmt)
    ELSE alter_pairs(data, scheme)

affix_chunk(length) ==
    IF length < 1 THEN <<>>
    ELSE IF length = 1 THEN <<(<<"S">>)>>
    ELSE [i \in 1..length |->
            IF i = 1 THEN <<"B">> ELSE IF i = length THEN <<"E">> ELSE <<"I">>]

\* zip([label] * (eos - bos), affix_chunk(eos - bos), strict=True)
token_chunk(label, bos, eos) ==
    LET affixes == affix_chunk(eos - bos)
    IN  [i \in 1..Len(affixes) |-> <<label, affixes[i]>>]

\* tokens[0:bos] + piece + tokens[eos:] with Python's clamping of slice bounds
splice(tokens, bos, eos, piece) ==
    SubSeq(tokens, 1, IF bos > Len(tokens) THEN Len(tokens) ELSE bos)
    \o piece
    \o SubSeq(tokens, (IF eos > Len(tokens) THEN Len(tokens) ELSE eos) + 1,
              Len(tokens))

RECURSIVE place_chunks(_, _)
place_chunks(tokens, chunks) ==
    IF chunks = <<>> THEN tokens
    ELSE LET c == Head(chunks)
         IN  place_chunks(splice(tokens, c[2], c[3], token_chunk(c[1], c[2], c[3])),
                          Tail(chunks))

\* the last statement of xcode
xcode_alter(tokens, scheme) ==
    IF scheme = IOBES THEN Returned("xcode", tokens)
    ELSE Renamed("xcode", alter(tokens, scheme, FALSE, DefaultFormat))

\* xcode(chunks, length=None, scheme="IOBES"): length is an integer, 0 standing
\* for None as "length or max(...)" treats both alike
xcode(chunks, length, scheme) ==
    xcode_alter(place_chunks([i \in 1..(IF length # 0 THEN length
                                         ELSE Max({c[3] : c \in Range(chunks)} \cup {0}))
                                |-> Outside],
                             chunks),
                scheme)

(***************************************************************************)
(* Scheme conversion and chunk round trips: convert, chunk and xcode       *)
(* applied to a label-affix sequence with canonical affixes coupled to     *)
(* label presence, and a scheme name.                                      *)
(***************************************************************************)
MaxLen == 3

Labels == {<<"X">>, <<"Y">>}

BILOU == <<"B", "I", "L", "O", "U">>

CoreSchemes == {IO, IOB, IOE, IOBE, IOBES}

SchemeNames == CoreSchemes \cup {IOB1, IOE1, BILOU}

CoupledPairs ==
    {Outside} \cup {<<l, a>> : l \in Labels, a \in {<<"I">>, <<"B">>, <<"E">>, <<"S">>}}

InitScheme ==
    /\ pc = "call"
    /\ args \in [tokens : SeqsUpTo(CoupledPairs, MaxLen), scheme : SchemeNames]
    /\ ret = NoRet
    /\ warned = <<>>

Convert ==
    /\ pc = "call"
    /\ ret' = convert(args.tokens, args.scheme, TRUE)
    /\ pc' = "done"
    /\ UNCHANGED <<args, warned>>

Chunk ==
    /\ pc = "call"
    /\ ret' = Returned("chunk", chunk(args.tokens))
    /\ pc' = "done"
    /\ UNCHANGED <<args, warned>>

\* xcode(chunk(tokens), len(tokens), scheme)
Xcode ==
    /\ pc = "call"
    /\ ret' = xcode(chunk(args.tokens), Len(args.tokens), args.scheme)
    /\ pc' = "done"
    /\ UNCHANGED <<args, warned>>

NextScheme == Convert \/ Chunk \/ Xcode

SpecScheme == InitScheme /\ [][NextScheme]_vars

\* C4 as stated: for every coupled canonical sequence and every target scheme
\* among IO, IOB, IOE, IOBE and IOBES, convert returns a sequence whose chunk
\* list equals the chunk list of its input.
C4_ConvertKeepsChunks ==
    (pc = "done" /\ ret.op = "convert" /\ args.scheme \in CoreSchemes) =>
        ret.ok /\ chunk(ret.val) = chunk(args.tokens)

\* C5 as stated: for every coupled canonical sequence and every supported
\* scheme, expanding the chunks of the sequence onto its length in that scheme
\* returns exactly what convert returns for the sequence and the scheme.
C5_XcodeIsConvert ==
    (pc = "done" /\ ret.op = "xcode" /\ args.scheme \in SchemeNames \ {BILOU}) =>
        LET converted == convert(args.tokens, args.scheme, TRUE)
        IN  converted.ok /\ ret.ok /\ ret.val = converted.val

\* no chunk is immediately followed by a chunk with the same label
NoTouching(chunks) ==
    \A i \in 1..(Len(chunks) - 1) :
        ~(chunks[i][3] = chunks[i + 1][2] /\ chunks[i][1] = chunks[i + 1][1])

\* C4 amended: convert keeps the chunk list for the target schemes IOB, IOE,
\* IOBE and IOBES, and for IO when no chunk of the input is immediately
\* followed by a chunk with the same label.
C4_ConvertKeepsSeparatedChunks ==
    (/\ pc = "done" /\ ret.op = "convert" /\ args.scheme \in CoreSchemes
     /\ (args.scheme = IO => NoTouching(chunk(args.tokens)))) =>
        ret.ok /\ chunk(ret.val) = chunk(args.tokens)

\* a conversion that rewrote the affixes of two touching chunks of one label
C4_Witness ==
    /\ pc = "done" /\ ret.op = "convert" /\ ret.ok
    /\ args.scheme = IOB
    /\ ~NoTouching(chunk(args.tokens))
    /\ ret.val # args.tokens
    /\ chunk(ret.val) = chunk(args.tokens)

(***************************************************************************)
(* The operations that take a scheme name, called with supported and       *)
(* unsupported names.                                                      *)
(***************************************************************************)
MaxNamed == 2

NamedPairs ==
    {Outside} \cup {<< <<"X">>, a>> : a \in {<<"I">>, <<"B">>, <<"E">>, <<"S">>}}

SupportedNames == CoreSchemes \cup {IOB1, IOE1}

OtherNames ==
    {BILOU, <<>>, <<"i", "o", "b">>, <<"I", "O", "1">>,
     <<"I", "O", "B", "E", "S", "1">>, <<"I", "O", "B", "1", "1">>}

\* the tags of label-affix pairs in the default format
tags_of(tokens) == merge_tags(tokens, DefaultFormat)

InitNamed ==
    /\ pc = "call"
    /\ args \in [tokens : SeqsUpTo(NamedPairs, MaxNamed),
                 scheme : SupportedNames \cup OtherNames,
                 strs : BOOLEAN,
                 label : {None, <<"X">>}, boc : BOOLEAN, eoc : BOOLEAN]
    /\ ret = NoRet
    /\ warned = <<>>

GetScheme ==
    /\ pc = "call"
    /\ ret' = get_scheme(args.scheme)
    /\ pc' = "done"
    /\ UNCHANGED <<args, warned>>

GenAffix ==
    /\ pc = "call"
    /\ ret' = Renamed("gen_affix",
                      gen_affix(args.label, args.boc, args.eoc, args.scheme))
    /\ pc' = "done"
    /\ UNCHANGED <<args, warned>>

ConvertNamed ==
    /\ pc = "call"
    /\ ret' = convert(args.tokens, args.scheme, TRUE)
    /\ pc' = "done"
    /\ UNCHANGED <<args, warned>>

\* alter on the pairs, or on their tags when strs is set
Alter ==
    /\ pc = "call"
    /\ ret' = alter(IF args.strs THEN tags_of(args.tokens) ELSE args.tokens,
                    args.scheme, args.strs, DefaultFormat)
    /\ pc' = "done"
    /\ UNCHANGED <<args, warned>>

NextNamed == GetScheme \/ GenAffix \/ ConvertNamed \/ Alter

SpecNamed == InitNamed /\ [][NextNamed]_vars

(***************************************************************************)
(* C14. Every operation that takes a scheme name (get_scheme, gen_affix,   *)
(* convert, alter) raises when the name is not one of IO, IOB, IOE, IOBE,  *)
(* IOBES, IOB1, IOE1, for every input sequence, the empty one included,    *)
(* and returns nothing for such a name.                                    *)
(* convert([], "BILOU") returns []: the name is only looked up when an     *)
(* affix is generated; alter strips one trailing "1" of any name, so       *)
(* alter([("X","B")], "IO1") returns [("X","I")].                          *)
(***************************************************************************)
C14_UnsupportedNamesRaise ==
    (/\ pc = "done"
     /\ ret.op \in {"get_scheme", "gen_affix", "convert", "alter"}
     /\ args.scheme \notin {IO, IOB, IOE, IOBE, IOBES, IOB1, IOE1}) => ~ret.ok

(***************************************************************************)
(* The tag codec with label maps, affix maps and a target scheme: parse on *)
(* tags, merge on label-affix pairs, and the steps they are made of.       *)
(***************************************************************************)
MaxCodec == 2

CodecPairs ==
    {Outside} \cup {<< <<"X">>, a>> : a \in {<<"B">>, <<"I">>, <<"L">>, <<"O">>}}

\* label maps: rename X, remove X, name the absent label
LabelMaps ==
    {<<"X">> :> <<"A">>, <<"X">> :> None, None :> <<"X">>}

\* affix maps with canonical values only
CanonicalMorphs ==
    {<<"L">> :> <<"E">> @@ <<"U">> :> <<"S">>, <<"B">> :> <<"O">>}

\* affix maps with a value outside I, O, B, E, S
ForeignMorphs ==
    {<<"B">> :> <<"F">>, <<"I">> :> <<"M">> @@ <<"B">> :> <<"F">> @@ <<"E">> :> <<"E">>,
     <<"U">> :> <<"W">>}

Optional(S) == {<<>>} \cup {<<x>> : x \in S}

InitCodec ==
    /\ pc = "call"
    /\ args \in [tokens : SeqsUpTo(CodecPairs, MaxCodec),
                 labels : Optional(LabelMaps),
                 morphs : Optional(CanonicalMorphs \cup ForeignMorphs),
                 scheme : Optional({IOB, BILOU})]
    /\ ret = NoRet
    /\ warned = <<>>

\* parse(tags, labels, morphs, scheme) on the tags of the pairs
Parse ==
    /\ pc = "call"
    /\ ret' = parse(tags_of(args.tokens), args.labels, args.morphs, args.scheme,
                    DefaultFormat)
    /\ pc' = "done"
    /\ UNCHANGED <<args, warned>>

\* merge(tokens, labels, morphs, scheme)
Merge ==
    /\ pc = "call"
    /\ ret' = merge(args.tokens, args.labels, args.morphs, args.scheme,
                    DefaultFormat)
    /\ pc' = "done"
    /\ UNCHANGED <<args, warned>>

ParseTagsOnly ==
    /\ pc = "call"
    /\ ret' = parse_tags(tags_of(args.tokens), DefaultFormat)
    /\ pc' = "done"
    /\ UNCHANGED <<args, warned>>

Relabel ==
    /\ pc = "call"
    /\ args.labels # <<>>
    /\ ret' = Returned("relabel", relabel(args.tokens, args.labels[1], <<"O">>))
    /\ pc' = "done"
    /\ UNCHANGED <<args, warned>>

Reaffix ==
    /\ pc = "call"
    /\ args.morphs # <<>>
    /\ ret' = Returned("reaffix", reaffix(args.tokens, args.morphs[1], <<"O">>))
    /\ pc' = "done"
    /\ UNCHANGED <<args, warned>>

ConvertPairs ==
    /\ pc = "call"
    /\ args.scheme # <<>>
    /\ ret' = convert(args.tokens, args.scheme[1], TRUE)
    /\ pc' = "done"
    /\ UNCHANGED <<args, warned>>

NextCodec == Parse \/ Merge \/ ParseTagsOnly \/ Relabel \/ Reaffix \/ ConvertPairs

SpecCodec == InitCodec /\ [][NextCodec]_vars

Canonical == {<<"I">>, <<"O">>, <<"B">>, <<"E">>, <<"S">>}

\* the affix map of the call has a value outside I, O, B, E, S
ForeignMap ==
    args.morphs # <<>>
    /\ \E a \in DOMAIN args.morphs[1] : args.morphs[1][a] \notin Canonical

(***************************************************************************)
(* C15. Affix remapping fails whenever the supplied affix map has a value  *)
(* outside {I, O, B, E, S}: parse, merge and reaffix called with such a    *)
(* map raise and return no sequence.                                       *)
(* Only parse checks the map; merge and reaffix apply it as it is:         *)
(* merge([("X","B")], morphs={"B": "F"}) returns ["F-X"].                  *)
(***************************************************************************)
C15_ForeignMapFails ==
    (pc = "done" /\ ret.op \in {"parse", "merge", "reaffix"} /\ ForeignMap)
        => ~ret.ok

\* C15 for parse: with an affix map that has a value outside
\* {I, O, B, E, S} parse raises ValueError for every tag sequence, the empty
\* one and those without an affix of the map included, whatever label map
\* and scheme come with it, and returns no sequence.
C15_ParseRejectsForeignMap ==
    (pc = "done" /\ ret.op = "parse" /\ ForeignMap)
        => ~ret.ok /\ ret.err = "ValueError"

\* parse refused a map although no tag has an affix the map would change and
\* label map and scheme are in order
C15_Witness ==
    /\ pc = "done" /\ ret.op = "parse" /\ ForeignMap
    /\ ~ret.ok
    /\ Len(args.tokens) = 2
    /\ \A i \in 1..2 : args.tokens[i][2] \notin DOMAIN args.morphs[1]
    /\ \A i \in 1..2 : args.tokens[i][2] \in Canonical
    /\ args.scheme = <<IOB>>
    /\ args.labels = <<(<<"X">> :> <<"A">>)>>

\* a pair has the outside affix exactly when its label is absent
Coupled(pairs) ==
    \A i \in 1..Len(pairs) : (pairs[i][1] = None) <=> (pairs[i][2] = <<"O">>)

\* the call returned label-affix pairs from one of the steps of the codec
CodecStep == pc = "done" /\ ret.ok /\ ret.op \in {"parse_tags", "relabel", "reaffix", "convert"}

(***************************************************************************)
(* C20. Every label-affix pair the tag codec produces (by parsing tags, by *)
(* remapping labels with any label map, by remapping affixes with any map  *)
(* whose values are canonical, by converting the scheme) has the outside   *)
(* affix exactly when its label is absent, given pairs that had it so.     *)
(* The tag "O-X" parses to ("X", "O"); the label map {None: "X"} turns     *)
(* (None, "O") into ("X", "O"); the affix map {"B": "O"} turns ("X", "B")  *)
(* into ("X", "O").                                                        *)
(***************************************************************************)
C20_PairsAreCoupled ==
    (/\ CodecStep
     /\ (ret.op \in {"relabel", "reaffix"} => Coupled(args.tokens))
     /\ (ret.op = "reaffix" => ~ForeignMap)) => Coupled(ret.val)

\* C20 as the code has it: convert returns coupled pairs whatever it is
\* given; relabel gives every token whose new label is absent the outside
\* affix, and returns coupled pairs when it is given coupled pairs and the
\* map does not rename the absent label; reaffix returns coupled pairs when
\* it is given coupled pairs and no value of the map is the outside affix;
\* parse_tags returns coupled pairs when no tag joins a label to the outside
\* tag.
C20_CoupledWhereKept ==
    /\ (CodecStep /\ ret.op = "convert") => Coupled(ret.val)
    /\ (CodecStep /\ ret.op = "relabel") =>
          /\ \A i \in 1..Len(ret.val) :
                ret.val[i][1] = None => ret.val[i][2] = <<"O">>
          /\ ((Coupled(args.tokens) /\ None \notin DOMAIN args.labels[1])
                => Coupled(ret.val))
    /\ (CodecStep /\ ret.op = "reaffix") =>
          ((/\ Coupled(args.tokens)
            /\ \A a \in DOMAIN args.morphs[1] : args.morphs[1][a] # <<"O">>)
                => Coupled(ret.val))
    /\ (CodecStep /\ ret.op = "parse_tags") =>
          (Coupled(args.tokens) => Coupled(ret.val))

\* a labelled token whose label the map removes came back outside
C20_Witness ==
    /\ CodecStep /\ ret.op = "relabel"
    /\ args.labels = <<(<<"X">> :> None)>>
    /\ Len(args.tokens) = 2
    /\ args.tokens[1] = << <<"X">>, <<"B">> >>
    /\ args.tokens[2] = << <<"X">>, <<"I">> >>
    /\ ret.val = <<Outside, Outside>>

(***************************************************************************)
(* Tag round trip: merge_tags on a label-affix sequence, then parse_tags   *)
(* on the tags it produced, under one tag format.  The affix of a token is *)
(* the outside tag of the format exactly when the token has no label.      *)
(***************************************************************************)
MaxTags == 2

MaxLabel == 1

MaxGlue == 1

LabelStrings == SeqsUpTo({"X", "-"}, MaxLabel)

Glues == SeqsUpTo({"-", "B"}, MaxGlue)

OTags == {<<"O">>, <<"0">>, <<"B", "-", "X">>}

TagFormats == [kind : {"prefix", "suffix"}, glue : Glues, otag : OTags]

TagPairs(otag) ==
    {<<None, otag>>} \cup {<<l, a>> : l \in LabelStrings, a \in {<<"B">>, <<"I">>}}

InitTag ==
    /\ pc = "call"
    /\ \E fmt \in TagFormats :
        args \in [tokens : SeqsUpTo(TagPairs(fmt.otag), MaxTags), fmt : {fmt}]
    /\ ret = NoRet
    /\ warned = <<>>

MergeTags ==
    /\ pc = "call"
    /\ ret' = Returned("merge_tags", merge_tags(args.tokens, args.fmt))
    /\ pc' = "merged"
    /\ UNCHANGED <<args, warned>>

\* parse_tags on the tags that merge_tags returned
ParseTags ==
    /\ pc = "merged"
    /\ ret' = parse_tags(ret.val, args.fmt)
    /\ pc' = "done"
    /\ UNCHANGED <<args, warned>>

NextTag == MergeTags \/ ParseTags

SpecTag == InitTag /\ [][NextTag]_vars

\* C6 as stated: for every tag format (either order, any separator, any
\* outside tag) and every sequence (any label string), parsing the merged tags
\* returns the original sequence.
C6_ParseMergeRoundTrip ==
    (pc = "done" /\ ret.op = "parse_tags") => ret.ok /\ ret.val = args.tokens

\* the number of places where glue occurs in tag
Occurrences(tag, glue) ==
    Cardinality({i \in 0..Len(tag) : occurs_at(tag, glue, i)})

\* every labelled token merges into a tag that holds the separator exactly
\* once and is not the outside tag
Separable(tokens, fmt) ==
    /\ fmt.glue # <<>>
    /\ \A i \in 1..Len(tokens) :
        tokens[i][1] # None =>
            LET tag == merge_tag(tokens[i][1], tokens[i][2],
                                 fmt.kind, fmt.glue, fmt.otag)
            IN  Occurrences(tag, fmt.glue) = 1 /\ tag # fmt.otag

\* C6 amended: when the separator is not empty and the tag merged from each
\* labelled token holds the separator exactly once and differs from the
\* outside tag, parsing the merged tags returns the original sequence.
C6_SeparableRoundTrip ==
    (pc = "done" /\ ret.op = "parse_tags" /\ Separable(args.tokens, args.fmt)) =>
        ret.ok /\ ret.val = args.tokens

\* a round trip of a labelled and an outside token in suffix order
C6_Witness ==
    /\ pc = "done" /\ ret.op = "parse_tags" /\ ret.ok
    /\ Separable(args.tokens, args.fmt)
    /\ args.fmt.kind = "suffix"
    /\ Len(args.tokens) = 2
    /\ args.tokens[1][1] = <<"X">>
    /\ args.tokens[2][1] = None
    /\ ret.val = args.tokens

(***************************************************************************)
(* Rebaser (rebaser.py).  A function of the rebaser has two effects, the   *)
(* value it returns (or the exception it raises) and the warnings it       *)
(* issues: Effect(ret, warned).                                            *)
(*                                                                         *)
(* rebaser.py imports xbase from aligner.py, which does not define it; it  *)
(* is modelled from the description of crossBase: two dictionaries, from   *)
(* the first target index of a cell to its first source index, and from    *)
(* one past the last target index of a cell to one past its last source    *)
(* index.  It is defined for cells that have a token on both sides.        *)
(***************************************************************************)
Effect(r, w) == [ret |-> r, warned |-> w]

\* the source side of the last cell whose target side begins at b: the last
\* cell decides, as in a dictionary comprehension
bos_cell(alignment, b) ==
    alignment[Max({i \in 1..Len(alignment) :
                     Min(Range(alignment[i][2])) = b})][1]

\* the source side of the last cell whose target side ends before e
eos_cell(alignment, e) ==
    alignment[Max({i \in 1..Len(alignment) :
                     Max(Range(alignment[i][2])) + 1 = e})][1]

xbase(alignment) ==
    [bos |-> [b \in {Min(Range(cell[2])) : cell \in Range(alignment)} |->
                Min(Range(bos_cell(alignment, b)))],
     eos |-> [e \in {Max(Range(cell[2])) + 1 : cell \in Range(alignment)} |->
                Max(Range(eos_cell(alignment, e))) + 1]]

\* an only-single-token variant of the filter of rebase_chunks
keeps_single(c, bos, eos) ==
    c[2] \in DOMAIN bos /\ c[3] \in DOMAIN eos /\ c[3] = c[2] + 1

\* (b in bos and e in eos)
keeps(c, bos, eos) == c[2] \in DOMAIN bos /\ c[3] \in DOMAIN eos

\* warn(f"removed chunks: {err}") when err is not empty
warn(err) == IF err = <<>> THEN <<>> ELSE <<err>>

\* rebase_chunks after xbase: the warning and the returned list
rebased(chunks, bos, eos) ==
    Effect(Returned("rebase_chunks",
                    [i \in 1..Len(SelectSeq(chunks, LAMBDA c : keeps(c, bos, eos))) |->
                        LET c == SelectSeq(chunks, LAMBDA d : keeps(d, bos, eos))[i]
                        IN  <<c[1], Get(bos, c[2], None), Get(eos, c[3], None)>>]),
           warn(SelectSeq(chunks, LAMBDA c : ~keeps(c, bos, eos))))

rebase_chunks(chunks, alignment) ==
    rebased(chunks, xbase(alignment).bos, xbase(alignment).eos)

(***************************************************************************)
(* Chunk translation: rebase_chunks applied to the chunks of a target      *)
(* tokenization and an alignment as align returns it, cells of consecutive *)
(* source and target indices in order.                                     *)
(***************************************************************************)
MaxCells == 2

MaxChunks == 2

CellSizes == {1, 2}

\* the cells whose sizes are given, from source index s0 and target index t0 on
RECURSIVE cells_from(_, _, _)
cells_from(shape, s0, t0) ==
    IF shape = <<>> THEN <<>>
    ELSE <<(<<[i \in 1..shape[1][1] |-> s0 + i - 1],
              [i \in 1..shape[1][2] |-> t0 + i - 1]>>)>>
         \o cells_from(Tail(shape), s0 + shape[1][1], t0 + shape[1][2])

Alignments ==
    {cells_from(shape, 0, 0) : shape \in SeqsUpTo(CellSizes \X CellSizes, MaxCells)}

\* the number of target tokens of an alignment
TargetSize(alignment) == Cardinality(UNION {Range(cell[2]) : cell \in Range(alignment)})

\* lists of chunks of a sequence of n tokens, in order and disjoint
ChunkLists(n) ==
    {cs \in SeqsUpTo({<<l, b, e>> : l \in Labels, b \in 0..(n - 1), e \in 1..n}, MaxChunks) :
        /\ \A i \in 1..Len(cs) : cs[i][2] < cs[i][3]
        /\ \A i \in 1..(Len(cs) - 1) : cs[i][3] <= cs[i + 1][2]}

InitRebaseChunks ==
    /\ pc = "call"
    /\ \E alignment \in Alignments :
        args \in [chunks : ChunkLists(TargetSize(alignment)), alignment : {alignment}]
    /\ ret = NoRet
    /\ warned = <<>>

RebaseChunks ==
    /\ pc = "call"
    /\ ret' = rebase_chunks(args.chunks, args.alignment).ret
    /\ warned' = warned \o rebase_chunks(args.chunks, args.alignment).warned
    /\ pc' = "done"
    /\ UNCHANGED args

NextRebaseChunks == RebaseChunks

SpecRebaseChunks == InitRebaseChunks /\ [][NextRebaseChunks]_vars

\* the cells whose first target index is b, and whose last target index is e - 1
CellsFrom(alignment, b) == {cell \in Range(alignment) : Min(Range(cell[2])) = b}

CellsUpTo(alignment, e) == {cell \in Range(alignment) : Max(Range(cell[2])) + 1 = e}

OnBoundaries(c, alignment) ==
    CellsFrom(alignment, c[2]) # {} /\ CellsUpTo(alignment, c[3]) # {}

Translated(c, alignment) ==
    <<c[1],
      Min(Range((CHOOSE cell \in CellsFrom(alignment, c[2]) : TRUE)[1])),
      Max(Range((CHOOSE cell \in CellsUpTo(alignment, c[3]) : TRUE)[1])) + 1>>

\* C7: rebase_chunks returns, in order, the translation of exactly the chunks
\* that begin where a cell begins and end where a cell ends; it raises nothing,
\* and it warns, once and with the list of the other chunks, exactly when there
\* are other chunks.
C7_RebaseChunksOnBoundaries ==
    (pc = "done" /\ ret.op = "rebase_chunks") =>
        LET kept == SelectSeq(args.chunks, LAMBDA c : OnBoundaries(c, args.alignment))
            left == SelectSeq(args.chunks, LAMBDA c : ~OnBoundaries(c, args.alignment))
        IN  /\ ret.ok
            /\ ret.val = [i \in 1..Len(kept) |-> Translated(kept[i], args.alignment)]
            /\ warned = IF left = <<>> THEN <<>> ELSE <<left>>

\* one chunk translated to other indices and one chunk left out with a warning
C7_Witness ==
    /\ pc = "done" /\ ret.op = "rebase_chunks" /\ ret.ok
    /\ Len(args.chunks) = 2
    /\ Len(ret.val) = 1
    /\ ret.val[1] \notin Range(args.chunks)
    /\ ret.val[1][3] > ret.val[1][2] + 1
    /\ Len(warned) = 1

\* sum(len(cell[side]) for cell in alignment)
RECURSIVE sum_side(_, _)
sum_side(alignment, side) ==
    IF alignment = <<>> THEN 0
    ELSE Len(Head(alignment)[side]) + sum_side(Tail(alignment), side)

\* rebase_tokens once the chunks are rebased: the chunks written over result
placed(result, out) ==
    Effect(Returned("rebase_tokens", place_chunks(result, out.ret.val)), out.warned)

\* "if chunks:" of rebase_tokens
place_rebased(result, chunks, alignment) ==
    IF chunks = <<>> THEN Effect(Returned("rebase_tokens", result), <<>>)
    ELSE placed(result, rebase_chunks(chunks, alignment))

rebase_tokens(tokens, alignment) ==
    IF Len(tokens) # sum_side(alignment, 2)
    THEN Effect(Raised("rebase_tokens", "AssertionError"), <<>>)
    ELSE place_rebased([i \in 1..sum_side(alignment, 1) |-> Outside],
                       chunk(tokens), alignment)

\* the label-affix pairs that chunk extraction reads from the values of rebase:
\* tag strings are decoded in the default format
pairs_of(values, strs) ==
    IF strs THEN parse_tags(values, DefaultFormat).val ELSE values

\* the last statement of rebase: merge when the values are tag strings
rebase_merge(converted, all_str, fmt) ==
    IF ~converted.ok THEN Renamed("rebase", converted)
    ELSE IF all_str
    THEN Renamed("rebase", merge(converted.val, <<>>, <<>>, <<>>, fmt))
    ELSE Returned("rebase", converted.val)

\* a rebase that leaves the rebased tokens in IOBES
rebase_unconverted(out, all_str, scheme, fmt) ==
    IF ~out.ret.ok THEN Effect(Renamed("rebase", out.ret), out.warned)
    ELSE Effect(rebase_merge(Returned("convert", out.ret.val), all_str, fmt),
                out.warned)

rebase_convert(out, all_str, scheme, fmt) ==
    IF ~out.ret.ok THEN Effect(Renamed("rebase", out.ret), out.warned)
    ELSE Effect(rebase_merge(convert(out.ret.val, scheme, TRUE), all_str, fmt),
                out.warned)

rebase_aligned(values, strs, aligned, scheme, fmt) ==
    IF ~aligned.ok THEN Effect(Raised("rebase", aligned.err), <<>>)
    ELSE rebase_convert(rebase_tokens(pairs_of(values, strs), aligned.val),
                        strs \/ values = <<>>, scheme, fmt)

\* a rebase without the test for equal token lists
rebase_realigned(source, target, values, strs, tokens, scheme, fmt) ==
    IF Len(target) # Len(values)
    THEN Effect(Raised("rebase", "AssertionError"), <<>>)
    ELSE rebase_aligned(values, strs, align(source, target, tokens), scheme, fmt)

\* rebase(source, target, values, tokens=None, scheme="IOBES", **kwargs); strs
\* tells whether the values are tag strings
rebase(source, target, values, strs, tokens, scheme, fmt) ==
    IF Len(target) # Len(values)
    THEN Effect(Raised("rebase", "AssertionError"), <<>>)
    ELSE IF source = target THEN Effect(Returned("rebase", values), <<>>)
    ELSE rebase_aligned(values, strs, align(source, target, tokens), scheme, fmt)

\* set(affix_list).issubset(set(sch))
covers(sch, affix_list) ==
    \A i \in 1..Len(affix_list) :
        Len(affix_list[i]) = 1 /\ affix_list[i][1] \in Range(sch)

\* min(schemes, key=len): no two covering schemes of minimal length exist,
\* since what IOB and IOE both cover IO covers
guessed(affix_list) ==
    IF \A sch \in DOMAIN schemes : ~covers(sch, affix_list) THEN None
    ELSE CHOOSE sch \in DOMAIN schemes :
            /\ covers(sch, affix_list)
            /\ \A other \in DOMAIN schemes :
                covers(other, affix_list) => Len(sch) <= Len(other)

guess_pairs(parsed) ==
    IF ~parsed.ok THEN Raised("guess_scheme", parsed.err)
    ELSE Returned("guess_scheme",
                  guessed([i \in 1..Len(parsed.val) |-> parsed.val[i][2]]))

\* guess_scheme(tokens, **kwargs); strs tells whether the tokens are tag strings
guess_scheme(tokens, strs, fmt) ==
    IF strs \/ tokens = <<>>
    THEN guess_pairs(parse(tokens, <<>>, <<>>, <<>>, fmt))
    ELSE guess_pairs(Returned("parse", tokens))

(***************************************************************************)
(* Scheme guessing with IOB1 and IOE1 (schemer.py).                        *)
(***************************************************************************)
\* {x for x, b in zip(affix_list, flags, strict=True) if b}
flagged(tokens, flags) == {tokens[i][2] : i \in {j \in 1..Len(tokens) : flags[j]}}

\* the two assignments under "if scheme in ['IOB', 'IOE']"
one_of(scheme, boc_set, eoc_set) ==
    IF eoc_set = {<<"I">>, <<"E">>} THEN IOE1
    ELSE IF boc_set = {<<"I">>, <<"B">>} THEN IOB1
    ELSE scheme

\* guess_scheme_one after guess_scheme(token_list)
guess_one_of(token_list, found) ==
    IF ~found.ok THEN Raised("guess_scheme_one", found.err)
    ELSE IF found.val \in {IOB, IOE}
    THEN Returned("guess_scheme_one",
                  one_of(found.val,
                         flagged(token_list, get_boc(token_list)),
                         flagged(token_list, get_eoc(token_list))))
    ELSE Returned("guess_scheme_one", found.val)

guess_one_pairs(parsed, fmt) ==
    IF ~parsed.ok THEN Raised("guess_scheme_one", parsed.err)
    ELSE guess_one_of(parsed.val, guess_scheme(parsed.val, FALSE, fmt))

\* guess_scheme_one(tokens, **kwargs); strs tells whether the tokens are tag
\* strings
guess_scheme_one(tokens, strs, fmt) ==
    IF strs \/ tokens = <<>>
    THEN guess_one_pairs(parse(tokens, <<>>, <<>>, <<>>, fmt), fmt)
    ELSE guess_one_pairs(Returned("parse", tokens), fmt)

\* ---- bounds and inputs of scheme guessing
MaxGuess == 3

InitGuess ==
    /\ pc = "call"
    /\ args \in [tokens : SeqsUpTo(CoupledPairs, MaxGuess), strs : BOOLEAN]
    /\ ret = NoRet
    /\ warned = <<>>

\* the tokens as they are passed: tags when strs is set, pairs otherwise
Passed == IF args.strs THEN tags_of(args.tokens) ELSE args.tokens

GuessScheme ==
    /\ pc = "call"
    /\ ret' = guess_scheme(Passed, args.strs, DefaultFormat)
    /\ pc' = "done"
    /\ UNCHANGED <<args, warned>>

GuessSchemeOne ==
    /\ pc = "call"
    /\ ret' = guess_scheme_one(Passed, args.strs, DefaultFormat)
    /\ pc' = "done"
    /\ UNCHANGED <<args, warned>>

NextGuess == GuessScheme \/ GuessSchemeOne

SpecGuess == InitGuess /\ [][NextGuess]_vars

\* the affixes observed in the sequence
Observed == {args.tokens[i][2][1] : i \in 1..Len(args.tokens)}

\* scheme is the one shortest core scheme whose letters include the affixes
ShortestCover(scheme, affixes) ==
    /\ scheme \in CoreSchemes
    /\ affixes \subseteq Range(scheme)
    /\ \A other \in CoreSchemes \ {scheme} :
          affixes \subseteq Range(other) => Len(scheme) < Len(other)

(***************************************************************************)
(* C16. For every sequence of tags or label-affix pairs with affixes in    *)
(* {I, O, B, E, S} guess_scheme returns the one shortest scheme among IO,  *)
(* IOB, IOE, IOBE, IOBES whose letters include every observed affix; for   *)
(* the empty sequence and for sequences of outside tags it returns IO.     *)
(* For the empty sequence guess_scheme raises ValueError: an empty list    *)
(* counts as a list of tags, and parse cannot check an empty list.         *)
(***************************************************************************)
C16_GuessIsShortestCover ==
    (pc = "done" /\ ret.op = "guess_scheme") =>
        /\ ret.ok
        /\ ShortestCover(ret.val, Observed)
        /\ (\A i \in 1..Len(args.tokens) : args.tokens[i] = Outside) => ret.val = IO

\* position i (1-based) begins a chunk right after a chunk of the same label
AfterSameLabel(tokens, i) ==
    /\ get_boc(tokens)[i]
    /\ i > 1
    /\ get_eoc(tokens)[i - 1]
    /\ tokens[i - 1][1] # None
    /\ tokens[i - 1][1] = tokens[i][1]

\* position i (1-based) ends a chunk right before a chunk of the same label
BeforeSameLabel(tokens, i) ==
    /\ get_eoc(tokens)[i]
    /\ i < Len(tokens)
    /\ get_boc(tokens)[i + 1]
    /\ tokens[i + 1][1] # None
    /\ tokens[i + 1][1] = tokens[i][1]

\* B is written exactly where a chunk begins right after a chunk of the same
\* label, and at least once
WrittenInIOB1(tokens) ==
    /\ \A i \in 1..Len(tokens) :
          tokens[i][2] \in {<<"I">>, <<"O">>, <<"B">>}
          /\ (tokens[i][2] = <<"B">> <=> AfterSameLabel(tokens, i))
    /\ \E i \in 1..Len(tokens) : tokens[i][2] = <<"B">>

WrittenInIOE1(tokens) ==
    /\ \A i \in 1..Len(tokens) :
          tokens[i][2] \in {<<"I">>, <<"O">>, <<"E">>}
          /\ (tokens[i][2] = <<"E">> <=> BeforeSameLabel(tokens, i))
    /\ \E i \in 1..Len(tokens) : tokens[i][2] = <<"E">>

(***************************************************************************)
(* C17. guess_scheme_one returns IOB1 (IOE1) only for sequences in which   *)
(* every B (E) sits on a chunk boundary next to a chunk of the same label  *)
(* and every other chunk begins (ends) with I; for every other sequence it *)
(* returns what guess_scheme returns.                                      *)
(* The code returns IOB1 as soon as both I and B occur at chunk beginnings:*)
(* [I-X, B-Y] gives IOB1 although the two chunks have different labels.    *)
(***************************************************************************)
C17_OneOnlyForSameLabelNeighbours ==
    (pc = "done" /\ ret.op = "guess_scheme_one") =>
        /\ (ret.ok /\ ret.val = IOB1) => WrittenInIOB1(args.tokens)
        /\ (ret.ok /\ ret.val = IOE1) => WrittenInIOE1(args.tokens)
        /\ ~(ret.ok /\ ret.val \in {IOB1, IOE1}) =>
              ret = Renamed("guess_scheme_one",
                            guess_scheme(Passed, args.strs, DefaultFormat))

(***************************************************************************)
(* Guessing the scheme of an expansion: guess_scheme(xcode(chunks, length, *)
(* scheme)).                                                               *)
(***************************************************************************)
MaxExpand == 3

InitExpand ==
    /\ pc = "call"
    /\ \E n \in 0..MaxExpand :
         \E cs \in ChunkLists(n), S \in CoreSchemes :
            args = [chunks |-> cs, length |-> n, scheme |-> S]
    /\ ret = NoRet
    /\ warned = <<>>

\* guess_scheme on what xcode returned
guess_expanded(expanded) ==
    IF ~expanded.ok THEN expanded
    ELSE guess_scheme(expanded.val, FALSE, DefaultFormat)

ExpandGuess ==
    /\ pc = "call"
    /\ ret' = guess_expanded(xcode(args.chunks, args.length, args.scheme))
    /\ pc' = "done"
    /\ UNCHANGED <<args, warned>>

NextExpand == ExpandGuess

SpecExpand == InitExpand /\ [][NextExpand]_vars

(***************************************************************************)
(* C18. For every list of pairwise-disjoint chunks within the sequence     *)
(* length and every scheme S among IO, IOB, IOE, IOBE, IOBES, guess_scheme *)
(* on the expansion of the chunks in S returns S or a scheme whose         *)
(* vocabulary is a strict subset of that of S.                             *)
(* For no chunks and length 0 nothing is returned: xcode raises ValueError *)
(* for every scheme but IOBES, and for IOBES it returns [], on which       *)
(* guess_scheme raises.                                                    *)
(***************************************************************************)
C18_GuessOfExpansion ==
    pc = "done" =>
        /\ ret.ok
        /\ ret.op = "guess_scheme"
        /\ ret.val \in CoreSchemes
        /\ Range(ret.val) \subseteq Range(args.scheme)

(***************************************************************************)
(* Token indexing: create_spans of spans.py, and index, check_tokens and   *)
(* index_tokens of indexer.py.                                             *)
(***************************************************************************)
\* check_tokens(tokens, source) for a list of tokens and a source string:
\* TRUE when it does not raise
check_tokens(tokens, source) == join(tokens) = strip_join(source)

\* the comprehension of index_tokens on what the walk produced
index_walked(r) ==
    IF r[1] THEN Returned("index_tokens", r[2])
    ELSE Raised("index_tokens", "ValueError")

\* index_tokens(tokens, source, bos=0): source.index raises ValueError
index_tokens(tokens, source, bos) ==
    index_walked(create_spans_loop(tokens, source, bos, <<>>))

\* source or " ".join(tokens): source is <<>> for None and for ""
source_or(source, tokens) ==
    IF source = <<>> THEN join_space(tokens) ELSE source

index_checked(tokens, source) ==
    IF ~check_tokens(tokens, source) THEN Raised("index", "ValueError")
    ELSE Renamed("index", index_tokens(tokens, source, 0))

\* index(tokens, source=None) without marker and mapper, with which
\* clean_tokens returns the tokens as they are
index(tokens, source) == index_checked(tokens, source_or(source, tokens))

\* ---- bounds and inputs of indexing
MaxIndexText == 3

MaxIndexTokens == 2

\* tokens of up to two letters, the empty token, and a token with a blank
IndexTokens == SeqsUpTo(Letters, 2) \cup {<<"a", " ">>}

InitIndex ==
    /\ pc = "call"
    /\ args \in [tokens : SeqsUpTo(IndexTokens, MaxIndexTokens),
                 text : SeqsUpTo(Letters \cup {" "}, MaxIndexText)]
    /\ ret = NoRet
    /\ warned = <<>>

CreateSpans ==
    /\ pc = "call"
    /\ ret' = create_spans(args.tokens, args.text)
    /\ pc' = "done"
    /\ UNCHANGED <<args, warned>>

Index ==
    /\ pc = "call"
    /\ ret' = index(args.tokens, args.text)
    /\ pc' = "done"
    /\ UNCHANGED <<args, warned>>

IndexTokensOnly ==
    /\ pc = "call"
    /\ ret' = index_tokens(args.tokens, args.text, 0)
    /\ pc' = "done"
    /\ UNCHANGED <<args, warned>>

NextIndex == CreateSpans \/ Index \/ IndexTokensOnly

SpecIndex == InitIndex /\ [][NextIndex]_vars

\* the text the tokens were indexed on
IndexedText ==
    IF ret.op = "index" THEN source_or(args.text, args.tokens) ELSE args.text

\* spans is one span per token, each the token's place in the text, in
\* strictly increasing order without overlap, covering every character of
\* the text that is not a blank exactly once
SpansIndex(spans, tokens, text) ==
    /\ Len(spans) = Len(tokens)
    /\ \A i \in 1..Len(spans) :
          /\ 0 <= spans[i][1] /\ spans[i][2] <= Len(text)
          /\ SubSeq(text, spans[i][1] + 1, spans[i][2]) = tokens[i]
    /\ \A i \in 1..Len(spans) : \A j \in (i + 1)..Len(spans) :
          spans[i][1] < spans[j][1] /\ spans[i][2] <= spans[j][1]
    /\ \A p \in 1..Len(text) :
          ~IsSpace(text[p]) =>
              Cardinality({i \in 1..Len(spans) :
                              spans[i][1] < p /\ p <= spans[i][2]}) = 1

SpansInOrder(spans, tokens, text) ==
    /\ Len(spans) = Len(tokens)
    /\ \A i \in 1..Len(spans) :
          /\ 0 <= spans[i][1] /\ spans[i][2] <= Len(text)
          /\ SubSeq(text, spans[i][1] + 1, spans[i][2]) = tokens[i]
    /\ \A i \in 1..Len(spans) : \A j \in (i + 1)..Len(spans) :
          /\ spans[i][2] <= spans[j][1]
          /\ tokens[i] # <<>> => spans[i][1] < spans[j][1]

\* every character of the text that is not a blank is in exactly one span
CoversText(spans, text) ==
    \A p \in 1..Len(text) :
        ~IsSpace(text[p]) =>
            Cardinality({i \in 1..Len(spans) :
                            spans[i][1] < p /\ p <= spans[i][2]}) = 1

MaxRebaseText == 4

\* the text of n letters
RECURSIVE Letter(_)
Letter(n) == IF n = 0 THEN <<>> ELSE <<"a">> \o Letter(n - 1)

\* the tokenizations of the text of n letters, without empty tokens
RebaseLists(n) ==
    {t \in Tokenizations(Letter(n)) : \A i \in 1..Len(t) : t[i] # <<>>}

ValuePairs == {Outside, <<(<<"X">>), <<"B">> >>, <<(<<"X">>), <<"I">> >>}

\* values for a target of n tokens: one per token, or one too few
ValueLists(n) ==
    {v \in SeqsUpTo(ValuePairs, n) : Len(v) >= n - 1}

InitRebase ==
    /\ pc = "call"
    /\ \E n \in 0..MaxRebaseText : \E src \in RebaseLists(n), tgt \in RebaseLists(n) :
        \E v \in ValueLists(Len(tgt)), strs \in BOOLEAN :
            args \in [source : {src}, target : {tgt},
                      values : {IF strs THEN merge_tags(v, DefaultFormat) ELSE v},
                      strs : {strs},
                      tokens : {<<>>, <<join(src)>>, <<(<<"b">>)>>},
                      scheme : {<<>>, <<IOB>>, <<IOBES>>, <<BILOU>>}]
    /\ ret = NoRet
    /\ warned = <<>>

\* a default of IOB for the scheme
scheme_arg_iob(given) == IF given = <<>> THEN IOB ELSE given[1]

\* scheme: str = "IOBES"
scheme_arg(given) == IF given = <<>> THEN IOBES ELSE given[1]

Rebase ==
    /\ pc = "call"
    /\ ret' = rebase(args.source, args.target, args.values, args.strs,
                     args.tokens, scheme_arg(args.scheme), DefaultFormat).ret
    /\ warned' = warned \o rebase(args.source, args.target, args.values, args.strs,
                                  args.tokens, scheme_arg(args.scheme),
                                  DefaultFormat).warned
    /\ pc' = "done"
    /\ UNCHANGED args

NextRebase == Rebase

SpecRebase == InitRebase /\ [][NextRebase]_vars

\* the label-affix pairs of the returned sequence
ResultPairs == pairs_of(ret.val, args.strs)

\* every affix is a letter of the scheme, and converting to it changes nothing
EncodedIn(tokens, scheme) ==
    /\ \A i \in 1..Len(tokens) :
        Len(tokens[i][2]) = 1 /\ tokens[i][2][1] \in Range(scheme)
    /\ convert(tokens, scheme, TRUE) = Returned("convert", tokens)

RebaseReturned == pc = "done" /\ ret.op = "rebase" /\ ret.ok

\* C8 as stated: every sequence rebase returns when called with a supported
\* scheme is encoded in that scheme, equal token lists included.
C8_RebaseEncodedInScheme ==
    (RebaseReturned /\ args.scheme # <<>> /\ scheme_arg(args.scheme) \in DOMAIN schemes) =>
        EncodedIn(ResultPairs, scheme_arg(args.scheme))

\* C8 amended: every sequence rebase returns for two different token lists
\* when called with a supported scheme is encoded in that scheme.
C8_RealignedEncodedInScheme ==
    (/\ RebaseReturned /\ args.scheme # <<>>
     /\ scheme_arg(args.scheme) \in DOMAIN schemes
     /\ args.source # args.target) =>
        EncodedIn(ResultPairs, scheme_arg(args.scheme))

\* a chunk of two target tokens rebased onto two other tokens and written in IOB
C8_Witness ==
    /\ RebaseReturned /\ args.scheme = <<IOB>>
    /\ args.source # args.target
    /\ \E i \in 1..Len(ResultPairs) : ResultPairs[i][2] = <<"B">>
    /\ \E i \in 1..Len(ResultPairs) : ResultPairs[i][2] = <<"I">>
    /\ EncodedIn(ResultPairs, IOB)

\* C9 as stated: without a scheme, the returned sequence is encoded in the
\* scheme that guess_scheme infers from the values.
C9_RebaseEncodedInGuess ==
    (/\ RebaseReturned /\ args.scheme = <<>>
     /\ guess_scheme(args.values, args.strs, DefaultFormat).ok) =>
        EncodedIn(ResultPairs, guess_scheme(args.values, args.strs, DefaultFormat).val)

\* C9 amended: without a scheme, the sequence returned for two different token
\* lists is encoded in IOBES, the default of the parameter.
C9_RealignedEncodedInDefault ==
    (RebaseReturned /\ args.scheme = <<>> /\ args.source # args.target) =>
        EncodedIn(ResultPairs, IOBES)

\* IOB values rebased without a scheme onto other tokens, with an E in the result
C9_Witness ==
    /\ RebaseReturned /\ args.scheme = <<>>
    /\ args.source # args.target
    /\ guess_scheme(args.values, args.strs, DefaultFormat) = Returned("guess_scheme", IOB)
    /\ \E i \in 1..Len(ResultPairs) : ResultPairs[i][2] = <<"E">>

\* C10: when the token lists are equal and there is one value per target
\* token, rebase returns the values unchanged and warns of nothing, whatever
\* the reference text and the scheme.
C10_RebaseFastPath ==
    (/\ pc = "done" /\ ret.op = "rebase"
     /\ args.source = args.target
     /\ Len(args.values) = Len(args.target)) =>
        ret = Returned("rebase", args.values) /\ warned = <<>>

\* IOB values returned as they are for a text that is not the tokens' and a
\* scheme that is not supported
C10_Witness ==
    /\ RebaseReturned
    /\ args.source = args.target
    /\ Len(args.source) = 2
    /\ args.tokens = <<(<<"b">>)>>
    /\ args.scheme = <<BILOU>>
    /\ ~args.strs
    /\ args.values[2] = <<(<<"X">>), <<"I">> >>
    /\ ret.val = args.values

(***************************************************************************)
(* Token objects (tokens.py).  A Token is the record of its fields; a flag *)
(* that was never set (None) is <<>>, a flag that was set is <<TRUE>> or   *)
(* <<FALSE>>.  The fields token and index are read and written by none of  *)
(* the functions below and are left out.  data is a list of blocks, a      *)
(* block is a list of Tokens, and a Chunk is the record of bos, eos, block *)
(* and label.                                                              *)
(***************************************************************************)
\* Token(token, affix, label): the dataclass with its __post_init__;
\* "not self.label" holds for None and for the empty string
Token(affix, label) ==
    LET lbl == IF label = None \/ label = <<>> THEN None ELSE label
        afx == IF lbl = None THEN <<"O">> ELSE affix
    IN  IF afx \notin {<<"I">>, <<"O">>, <<"B">>, <<"E">>, <<"S">>}
        THEN Raised("Token", "ValueError")
        ELSE Returned("Token", [affix |-> afx, label |-> lbl, boc |-> <<>>,
                                eoc |-> <<>>, bob |-> <<>>, eob |-> <<>>])

\* the truth value of a flag: None is false
truthy(flag) == flag = <<TRUE>>

is_boc(curr_label, curr_affix, prev_label, prev_affix, otag) ==
    \/ curr_affix \in {<<"B">>, <<"S">>}
    \/ prev_affix \in {<<"E">>, <<"S">>, otag} /\ curr_affix \in {<<"I">>, <<"E">>}
    \/ prev_label # curr_label /\ curr_affix # otag

\* an end-of-chunk test that looks at the affixes alone
is_eoc_unlabelled(curr_label, curr_affix, prev_label, prev_affix, otag) ==
    \/ prev_affix \in {<<"E">>, <<"S">>}
    \/ prev_affix \in {<<"B">>, <<"I">>} /\ curr_affix \in {<<"B">>, <<"S">>, otag}

is_eoc(curr_label, curr_affix, prev_label, prev_affix, otag) ==
    \/ prev_affix \in {<<"E">>, <<"S">>}
    \/ prev_affix \in {<<"B">>, <<"I">>} /\ curr_affix \in {<<"B">>, <<"S">>, otag}
    \/ prev_label # curr_label /\ prev_affix # otag

\* "if eob and data[i][j].affix != otag: data[i][j].eoc = True"
annotate_eob(block, j, otag) ==
    IF j = Len(block) /\ block[j].affix # otag
    THEN [block EXCEPT ![j].eoc = <<TRUE>>] ELSE block

\* the assignments to the previous and to the current token; data[i][j - 1]
\* is the last token of the block when j is 0
annotate_flags(block, j, boc, eoc) ==
    [[block EXCEPT ![IF j = 1 THEN Len(block) ELSE j - 1].eoc = <<eoc>>]
        EXCEPT ![j].boc = <<boc>>, ![j].bob = <<j = 1>>, ![j].eob = <<j = Len(block)>>]

\* one iteration of the inner loop of annotate, on the token at position j
annotate_token(block, j, prev_label, prev_affix, otag) ==
    annotate_eob(
        annotate_flags(block, j,
                       is_boc(block[j].label, block[j].affix,
                              prev_label, prev_affix, otag),
                       is_eoc(block[j].label, block[j].affix,
                              prev_label, prev_affix, otag)),
        j, otag)

RECURSIVE annotate_block(_, _, _)
annotate_block(block, j, otag) ==
    IF j > Len(block) THEN block
    ELSE annotate_block(
            annotate_token(block, j,
                           IF j = 1 THEN None ELSE block[j - 1].label,
                           IF j = 1 THEN otag ELSE block[j - 1].affix,
                           otag),
            j + 1, otag)

\* annotate(data, otag="O"): the Tokens of data are assigned to in place
\* and data itself is returned
annotate(data, otag) ==
    [i \in 1..Len(data) |-> annotate_block(data[i], 1, otag)]

\* Chunk.validate, called by Chunk.__post_init__
validate(bos, eos) ==
    IF bos = eos \/ bos > eos THEN Raised("Chunk", "ValueError")
    ELSE Returned("Chunk", None)

\* the inner loop of get_chunks on block i, from position j, boc being the
\* index of the last token that began a chunk without ending it
RECURSIVE get_chunks_block(_, _, _, _)
get_chunks_block(block, i, j, boc) ==
    IF j > Len(block) THEN <<>>
    ELSE IF truthy(block[j].boc) /\ truthy(block[j].eoc)
    THEN <<[bos |-> j - 1, eos |-> j, block |-> i, label |-> block[j].label]>>
         \o get_chunks_block(block, i, j + 1, boc)
    ELSE IF truthy(block[j].boc) /\ ~truthy(block[j].eoc)
    THEN get_chunks_block(block, i, j + 1, j - 1)
    ELSE IF truthy(block[j].eoc) /\ ~truthy(block[j].boc)
    THEN <<[bos |-> boc, eos |-> j, block |-> i, label |-> block[j].label]>>
         \o get_chunks_block(block, i, j + 1, boc)
    ELSE get_chunks_block(block, i, j + 1, boc)

RECURSIVE get_chunks_from(_, _)
get_chunks_from(data, i) ==
    IF i > Len(data) THEN <<>>
    ELSE get_chunks_block(data[i], i - 1, 1, 0) \o get_chunks_from(data, i + 1)

\* the chunks of get_chunks, unless the construction of one of them raises
validated(chunks) ==
    IF \E k \in 1..Len(chunks) : ~validate(chunks[k].bos, chunks[k].eos).ok
    THEN Raised("get_chunks", "ValueError")
    ELSE Returned("get_chunks", chunks)

get_chunks(data) == validated(get_chunks_from(data, 1))

\* Token.update(param, value) for the parameter affix
update_affix(token, value) == [token EXCEPT !.affix = value]

\* Token.convert(scheme): a copy of the token with the affix of the scheme
token_convert(token, scheme) ==
    IF scheme \notin {IO, IOB, IOBE, IOBES}
    THEN Raised("convert", "ValueError")
    ELSE Returned("convert",
            update_affix(token,
                IF truthy(token.boc) /\ truthy(token.eoc)
                THEN schemes[scheme][<<"S">>]
                ELSE IF truthy(token.boc) THEN schemes[scheme][<<"B">>]
                ELSE IF truthy(token.eoc) THEN schemes[scheme][<<"E">>]
                ELSE IF token.label # None THEN <<"I">> ELSE <<"O">>))

\* tokens.convert(data, scheme): new lists of new Tokens
tokens_convert(data, scheme) ==
    IF \E i \in 1..Len(data) : \E j \in 1..Len(data[i]) :
            ~token_convert(data[i][j], scheme).ok
    THEN Raised("convert", "ValueError")
    ELSE Returned("convert",
            [i \in 1..Len(data) |->
                [j \in 1..Len(data[i]) |-> token_convert(data[i][j], scheme).val]])

(***************************************************************************)
(* Token blocks: Tokens are constructed from label-affix pairs, as load    *)
(* does, annotated, and then read by get_chunks or converted.  args.data   *)
(* is the list object the caller holds, so an assignment to a field of one *)
(* of its Tokens changes args.                                             *)
(***************************************************************************)
MaxBlock == 3

TokenPairs == CoupledPairs \cup {<<l, <<"O">> >> : l \in Labels}

Tokens == {Token(p[2], p[1]).val : p \in TokenPairs}

\* a second block, for the block index of a chunk
MoreBlocks == {<<>>, <<(<<Token(<<"B">>, <<"X">>).val>>)>>}

InitTokens ==
    /\ pc = "call"
    /\ \E first \in SeqsUpTo(Tokens, MaxBlock), more \in MoreBlocks,
          scheme \in {IO, IOB, IOE, IOBE, IOBES} :
            args = [data |-> <<first>> \o more, scheme |-> scheme]
    /\ ret = NoRet
    /\ warned = <<>>

Annotate ==
    /\ pc = "call"
    /\ args' = [args EXCEPT !.data = annotate(args.data, <<"O">>)]
    /\ ret' = Returned("annotate", annotate(args.data, <<"O">>))
    /\ pc' = "annotated"
    /\ UNCHANGED warned

GetChunks ==
    /\ pc = "annotated"
    /\ ret' = get_chunks(args.data)
    /\ pc' = "done"
    /\ UNCHANGED <<args, warned>>

ConvertTokens ==
    /\ pc = "annotated"
    /\ ret' = tokens_convert(args.data, args.scheme)
    /\ pc' = "done"
    /\ UNCHANGED <<args, warned>>

NextTokens == Annotate \/ GetChunks \/ ConvertTokens

SpecTokens == InitTokens /\ [][NextTokens]_vars

\* the tokens of a block carry canonical affixes coupled to label presence
CoupledBlock(block) ==
    \A j \in 1..Len(block) :
        /\ block[j].affix \in {<<"I">>, <<"O">>, <<"B">>, <<"E">>, <<"S">>}
        /\ block[j].affix = <<"O">> <=> block[j].label = None

\* the chunks of block i (counted from 0) among the extracted chunks
ChunksOfBlock(chunks, i) == SelectSeq(chunks, LAMBDA c : c.block = i)

\* the chunks lie within the n tokens of the block, are disjoint and in
\* increasing order, hold tokens of their own label only, and cover exactly
\* the tokens that carry a label
WellChunked(chunks, block) ==
    /\ \A k \in 1..Len(chunks) :
        /\ 0 <= chunks[k].bos /\ chunks[k].bos < chunks[k].eos
        /\ chunks[k].eos <= Len(block)
        /\ \A j \in (chunks[k].bos + 1)..chunks[k].eos :
                block[j].label = chunks[k].label
    /\ \A k \in 1..(Len(chunks) - 1) : chunks[k].eos <= chunks[k + 1].bos
    /\ \A j \in 1..Len(block) :
        (block[j].label # None)
            <=> \E k \in 1..Len(chunks) : chunks[k].bos < j /\ j <= chunks[k].eos

\* the scenario of the tags O, B-X, I-X, O, B-Y
ScenarioBlock ==
    << Token(<<"O">>, None).val, Token(<<"B">>, <<"X">>).val,
       Token(<<"I">>, <<"X">>).val, Token(<<"O">>, None).val,
       Token(<<"B">>, <<"Y">>).val >>

\* C21: for every annotated block whose tokens carry canonical affixes coupled
\* to label presence, get_chunks returns chunks with 0 <= bos < eos <= n that
\* are pairwise disjoint and in increasing order, every token inside a chunk
\* carries the label of the chunk, and a token lies inside a chunk exactly
\* when it has a label; the tags O, B-X, I-X, O, B-Y give (X,1,3) and (Y,4,5).
C21_ChunksOfCoupledBlocks ==
    /\ get_chunks(annotate(<<ScenarioBlock>>, <<"O">>))
        = Returned("get_chunks",
                   << [bos |-> 1, eos |-> 3, block |-> 0, label |-> <<"X">>],
                      [bos |-> 4, eos |-> 5, block |-> 0, label |-> <<"Y">>] >>)
    /\ (pc = "done" /\ ret.op = "get_chunks"
        /\ \A i \in 1..Len(args.data) : CoupledBlock(args.data[i]))
        => /\ ret.ok
           /\ \A c \in Range(ret.val) : c.block \in 0..(Len(args.data) - 1)
           /\ \A i \in 1..Len(args.data) :
                WellChunked(ChunksOfBlock(ret.val, i - 1), args.data[i])

\* get_chunks has returned chunks in two blocks, two of them touching with
\* one label, the second of them two tokens long
C21_Witness ==
    /\ pc = "done" /\ ret.op = "get_chunks" /\ ret.ok
    /\ \A i \in 1..Len(args.data) : CoupledBlock(args.data[i])
    /\ Len(args.data) = 2
    /\ Len(ret.val) = 3
    /\ ret.val[1].eos = ret.val[2].bos
    /\ ret.val[1].label = ret.val[2].label
    /\ ret.val[2].eos - ret.val[2].bos = 2

\* C22: no operation modifies its arguments: across every call (annotate,
\* get_chunks, convert) the data the caller passed, with every Token in it,
\* has the same field values after the call as before it.
C22_ArgumentsUnchanged == [][args' = args]_vars

(***************************************************************************)
(* Chunk flags: isa_boc and isa_eoc applied to a previous and a current    *)
(* label-affix pair, get_boc and get_eoc applied to a sequence.  The pairs *)
(* need not be coupled: every label goes with every affix.                 *)
(***************************************************************************)
MaxFlags == 3

FlagPairs ==
    {<<l, a>> : l \in {None} \cup Labels,
                a \in {<<"I">>, <<"O">>, <<"B">>, <<"E">>, <<"S">>}}

InitFlags ==
    /\ pc = "call"
    /\ args \in [tokens : SeqsUpTo(FlagPairs, MaxFlags)]
    /\ ret = NoRet
    /\ warned = <<>>

\* isa_boc(*prev, *curr) with prev, curr = tokens
IsaBoc ==
    /\ pc = "call"
    /\ Len(args.tokens) = 2
    /\ ret' = Returned("isa_boc",
                       isa_boc(args.tokens[1][1], args.tokens[1][2],
                               args.tokens[2][1], args.tokens[2][2]))
    /\ pc' = "done"
    /\ UNCHANGED <<args, warned>>

IsaEoc ==
    /\ pc = "call"
    /\ Len(args.tokens) = 2
    /\ ret' = Returned("isa_eoc",
                       isa_eoc(args.tokens[1][1], args.tokens[1][2],
                               args.tokens[2][1], args.tokens[2][2]))
    /\ pc' = "done"
    /\ UNCHANGED <<args, warned>>

GetBoc ==
    /\ pc = "call"
    /\ ret' = Returned("get_boc", get_boc(args.tokens))
    /\ pc' = "done"
    /\ UNCHANGED <<args, warned>>

GetEoc ==
    /\ pc = "call"
    /\ ret' = Returned("get_eoc", get_eoc(args.tokens))
    /\ pc' = "done"
    /\ UNCHANGED <<args, warned>>

NextFlags == IsaBoc \/ IsaEoc \/ GetBoc \/ GetEoc

SpecFlags == InitFlags /\ [][NextFlags]_vars

\* the previous and the current pair of a call of isa_boc or isa_eoc
Prev == args.tokens[1]

Curr == args.tokens[2]

\* C23: for every previous and current label-affix pair, isa_boc is true
\* exactly when the current affix is B or S, or the previous affix is E, S or
\* O and the current affix is I or E, or the labels differ and the current
\* affix is not O; isa_eoc is true exactly when the previous affix is E or S,
\* or the previous affix is B or I and the current affix is B, S or O, or the
\* labels differ and the previous affix is not O.
C23_FlagsByAffixAndLabel ==
    /\ (pc = "done" /\ ret.op = "isa_boc") =>
        (ret.val <=>
            \/ Curr[2] = <<"B">> \/ Curr[2] = <<"S">>
            \/ (Prev[2] = <<"E">> \/ Prev[2] = <<"S">> \/ Prev[2] = <<"O">>)
               /\ (Curr[2] = <<"I">> \/ Curr[2] = <<"E">>)
            \/ Prev[1] # Curr[1] /\ Curr[2] # <<"O">>)
    /\ (pc = "done" /\ ret.op = "isa_eoc") =>
        (ret.val <=>
            \/ Prev[2] = <<"E">> \/ Prev[2] = <<"S">>
            \/ (Prev[2] = <<"B">> \/ Prev[2] = <<"I">>)
               /\ (Curr[2] = <<"B">> \/ Curr[2] = <<"S">> \/ Curr[2] = <<"O">>)
            \/ Prev[1] # Curr[1] /\ Prev[2] # <<"O">>)

\* isa_boc answered true by its third rule alone: the labels differ
C23_Witness ==
    /\ pc = "done" /\ ret.op = "isa_boc" /\ ret.val
    /\ Prev = <<(<<"X">>), <<"I">> >>
    /\ Curr = <<(<<"Y">>), <<"I">> >>

\* the pair carries a label and a canonical affix
Labelled(pair) ==
    pair[1] # None /\ pair[2] \in {<<"I">>, <<"O">>, <<"B">>, <<"E">>, <<"S">>}

\* the pair carries a label and an affix other than the outside affix
Inside(pair) == Labelled(pair) /\ pair[2] # <<"O">>

\* the number of true flags among the first k
Count(flags, k) == Cardinality({i \in 1..k : flags[i]})

\* begin and end flags alternate, a begin first and an end last: a chunk
\* begins only when none is open, ends only when one is open (the begin flag
\* of a token comes before its end flag), and none is open at the end
Alternate(boc, eoc) ==
    /\ \A i \in 1..Len(boc) :
        /\ boc[i] => Count(boc, i - 1) = Count(eoc, i - 1)
        /\ eoc[i] => Count(boc, i) = Count(eoc, i - 1) + 1
    /\ Count(boc, Len(boc)) = Count(eoc, Len(eoc))

\* the flags get_boc and get_eoc return for a coupled sequence alternate
SequenceFlagsAlternate ==
    (pc = "done" /\ ret.op \in {"get_boc", "get_eoc"} /\ Coupled(args.tokens))
        => /\ ret.val = (IF ret.op = "get_boc" THEN get_boc(args.tokens)
                         ELSE get_eoc(args.tokens))
           /\ Len(get_boc(args.tokens)) = Len(args.tokens)
           /\ Len(get_eoc(args.tokens)) = Len(args.tokens)
           /\ Alternate(get_boc(args.tokens), get_eoc(args.tokens))

\* C25 as stated: for two adjacent tokens that both carry a label and a
\* canonical affix, isa_boc and isa_eoc give the same answer; over every
\* sequence with canonical affixes coupled to label presence, with a virtual
\* outside neighbour at both ends, the begin flags of get_boc and the end
\* flags of get_eoc alternate strictly, a begin first and an end last, and
\* there are as many begin flags as end flags.
\* A labelled token may carry the affix O (relabel with a map from None to a
\* label produces one): for X with O followed by X with B, isa_boc is true
\* and isa_eoc is false.
C25_LabelledFlagsAgree ==
    /\ (pc = "done" /\ ret.op \in {"isa_boc", "isa_eoc"}
        /\ Labelled(Prev) /\ Labelled(Curr))
        => (isa_boc(Prev[1], Prev[2], Curr[1], Curr[2])
                <=> isa_eoc(Prev[1], Prev[2], Curr[1], Curr[2]))
    /\ SequenceFlagsAlternate

\* C25, amended: the two tests agree for two adjacent tokens that both
\* carry a label and one of the affixes I, B, E and S; the alternation over
\* coupled sequences holds as stated.
C25_FlagsAlternate ==
    /\ (pc = "done" /\ ret.op \in {"isa_boc", "isa_eoc"}
        /\ Inside(Prev) /\ Inside(Curr))
        => /\ isa_boc(Prev[1], Prev[2], Curr[1], Curr[2])
                <=> isa_eoc(Prev[1], Prev[2], Curr[1], Curr[2])
           /\ ret.val <=> isa_boc(Prev[1], Prev[2], Curr[1], Curr[2])
    /\ SequenceFlagsAlternate

\* get_eoc returned the end flags of two touching chunks of one label
C25_Witness ==
    /\ pc = "done" /\ ret.op = "get_eoc"
    /\ args.tokens = << <<(<<"X">>), <<"B">> >>, <<(<<"X">>), <<"B">> >>,
                        <<(<<"X">>), <<"I">> >> >>
    /\ ret.val = <<TRUE, FALSE, TRUE>>

(***************************************************************************)
(* Recoding: parser.convert and schemer.alter applied to a sequence of     *)
(* label-affix pairs and one of the seven scheme names.  The sequences     *)
(* hold every order of the coupled pairs (also those no scheme writes, as  *)
(* E before I) and two uncoupled pairs.                                    *)
(***************************************************************************)
MaxRecode == 3

RecodePairs ==
    CoupledPairs \cup {<<None, <<"B">> >>, <<(<<"X">>), <<"O">> >>}

InitRecode ==
    /\ pc = "call"
    /\ args \in [tokens : SeqsUpTo(RecodePairs, MaxRecode),
                 scheme : CoreSchemes \cup {IOB1, IOE1}]
    /\ ret = NoRet
    /\ warned = <<>>

ConvertTo ==
    /\ pc = "call"
    /\ ret' = convert(args.tokens, args.scheme, TRUE)
    /\ pc' = "done"
    /\ UNCHANGED <<args, warned>>

AlterTo ==
    /\ pc = "call"
    /\ ret' = alter(args.tokens, args.scheme, FALSE, DefaultFormat)
    /\ pc' = "done"
    /\ UNCHANGED <<args, warned>>

NextRecode == ConvertTo \/ AlterTo

SpecRecode == InitRecode /\ [][NextRecode]_vars

\* token i (1-based) is the first token of a chunk of the sequence
BeginsChunk(tokens, i) == \E c \in Range(chunk(tokens)) : c[2] = i - 1

\* token i (1-based) is the last token of a chunk of the sequence
EndsChunk(tokens, i) == \E c \in Range(chunk(tokens)) : c[3] = i

\* token i begins a chunk and the token before it ends one of the same label
BeginsAfterSame(tokens, i) ==
    /\ BeginsChunk(tokens, i)
    /\ i > 1
    /\ EndsChunk(tokens, i - 1)
    /\ tokens[i - 1][1] = tokens[i][1]

\* token i ends a chunk and the token after it begins one of the same label
EndsBeforeSame(tokens, i) ==
    /\ EndsChunk(tokens, i)
    /\ i < Len(tokens)
    /\ BeginsChunk(tokens, i + 1)
    /\ tokens[i + 1][1] = tokens[i][1]

\* out carries the labels of tokens, the mark where marked(i) holds, I on
\* every other labelled token and O on the others
MarksOnly(out, tokens, mark, marked(_)) ==
    /\ Len(out) = Len(tokens)
    /\ \A i \in 1..Len(tokens) :
        /\ out[i][1] = tokens[i][1]
        /\ out[i][2] = (IF tokens[i][1] = None THEN <<"O">>
                        ELSE IF marked(i) THEN mark ELSE <<"I">>)

\* C24: for every coupled canonical sequence, conversion to IOB1 (by convert
\* and by alter) marks a token B exactly when it begins a chunk and the
\* preceding token ends a chunk with the same label, and marks every other
\* labelled token I; conversion to IOE1 marks a token E exactly when it ends
\* a chunk and the following token begins a chunk with the same label, and
\* marks every other labelled token I.
C24_MarksBetweenSameLabel ==
    (pc = "done" /\ ret.op \in {"convert", "alter"} /\ Coupled(args.tokens)
     /\ args.scheme \in {IOB1, IOE1})
        => /\ args.tokens # <<>> => ret.ok
           /\ (ret.ok /\ args.scheme = IOB1) =>
                MarksOnly(ret.val, args.tokens, <<"B">>,
                          LAMBDA i : BeginsAfterSame(args.tokens, i))
           /\ (ret.ok /\ args.scheme = IOE1) =>
                MarksOnly(ret.val, args.tokens, <<"E">>,
                          LAMBDA i : EndsBeforeSame(args.tokens, i))

\* convert to IOB1 kept one B, between two chunks of X, and wrote I at the
\* beginning of the first chunk and of the chunk of Y
C24_Witness ==
    /\ pc = "done" /\ ret.op = "convert" /\ ret.ok /\ args.scheme = IOB1
    /\ args.tokens = << <<(<<"X">>), <<"B">> >>, <<(<<"X">>), <<"B">> >>,
                        <<(<<"Y">>), <<"B">> >> >>
    /\ ret.val = << <<(<<"X">>), <<"I">> >>, <<(<<"X">>), <<"B">> >>,
                    <<(<<"Y">>), <<"I">> >> >>

\* C26: for every label-affix sequence, also one with inconsistent affixes,
\* and every scheme among IO, IOB, IOE, IOBE, IOBES, IOB1 and IOE1, convert
\* returns a sequence of the same length with the same label at every
\* position, in which every affix is a letter of the name of the scheme and
\* is O exactly when the label at that position is absent.
C26_ConvertKeepsLabels ==
    (pc = "done" /\ ret.op = "convert") =>
        /\ ret.ok
        /\ Len(ret.val) = Len(args.tokens)
        /\ \A i \in 1..Len(args.tokens) :
            /\ ret.val[i][1] = args.tokens[i][1]
            /\ Len(ret.val[i][2]) = 1
            /\ ret.val[i][2][1] \in Range(args.scheme)
            /\ ret.val[i][2] = <<"O">> <=> args.tokens[i][1] = None

\* C27: for every coupled canonical sequence and every scheme among IO, IOB,
\* IOE, IOBE, IOBES, IOB1 and IOE1, alter and convert return the same
\* sequence.
C27_AlterIsConvert ==
    (pc = "done" /\ ret.op \in {"convert", "alter"} /\ Coupled(args.tokens)) =>
        /\ ret.ok
        /\ Renamed("recode", convert(args.tokens, args.scheme, TRUE))
            = Renamed("recode", alter(args.tokens, args.scheme, FALSE, DefaultFormat))

(***************************************************************************)
(* Guessing the scheme of a batch: schemer.guess applied to a list of      *)
(* sequences of tags or of label-affix pairs.  max(schemes, key=len)       *)
(* returns the first of the longest names in the iteration order of a set  *)
(* of strings, which follows the hashes of the strings and changes from    *)
(* one run of the interpreter to the next: guess is the set of the results *)
(* a call can produce.                                                     *)
(***************************************************************************)
\* {guess_scheme(item, **kwargs) for item in data}
guess_each(data, strs, fmt) ==
    [i \in 1..Len(data) |-> guess_scheme(data[i], strs, fmt)]

\* None if not schemes else str(max(schemes, key=len)): len(None) raises
guess_max(found) ==
    IF \E i \in 1..Len(found) : ~found[i].ok
    THEN {Raised("guess", "ValueError")}
    ELSE IF found = <<>> THEN {Returned("guess", None)}
    ELSE IF \E i \in 1..Len(found) : found[i].val = None
    THEN {Raised("guess", "TypeError")}
    ELSE {Returned("guess", found[i].val) : i \in
            {i \in 1..Len(found) :
                \A j \in 1..Len(found) : Len(found[j].val) <= Len(found[i].val)}}

\* guess(data, **kwargs); lists tells whether every item of data is a list,
\* which holds for an empty list
guess(data, lists, strs, fmt) ==
    IF lists \/ data = <<>> THEN guess_max(guess_each(data, strs, fmt))
    ELSE {Renamed("guess", guess_scheme(data, strs, fmt))}

MaxBatch == 2

MaxItem == 2

BatchPairs == {Outside} \cup {<<(<<"X">>), a>> : a \in {<<"I">>, <<"B">>, <<"E">>, <<"S">>}}

InitBatch ==
    /\ pc = "call"
    /\ args \in [data : SeqsUpTo(SeqsUpTo(BatchPairs, MaxItem), MaxBatch),
                 strs : BOOLEAN, lists : BOOLEAN]
    /\ args.lists \/ Len(args.data) = 1
    /\ ret = NoRet
    /\ warned = <<>>

\* the items as they are passed: tags when strs, label-affix pairs otherwise
BatchPassed ==
    [i \in 1..Len(args.data) |->
        IF args.strs THEN merge_tags(args.data[i], DefaultFormat) ELSE args.data[i]]

\* guess(data) on a batch
Guess ==
    /\ pc = "call"
    /\ args.lists
    /\ \E r \in guess(BatchPassed, TRUE, args.strs, DefaultFormat) : ret' = r
    /\ pc' = "done"
    /\ UNCHANGED <<args, warned>>

\* guess(data[0]) on one sequence
GuessOne ==
    /\ pc = "call"
    /\ ~args.lists
    /\ \E r \in guess(BatchPassed[1], FALSE, args.strs, DefaultFormat) : ret' = r
    /\ pc' = "done"
    /\ UNCHANGED <<args, warned>>

NextBatch == Guess \/ GuessOne

SpecBatch == InitBatch /\ [][NextBatch]_vars

\* the affixes that occur in the sequences of the batch
BatchAffixes ==
    {args.data[i][j][2][1] : <<i, j>> \in
        {<<i, j>> \in (1..Len(args.data)) \X (1..MaxItem) : j <= Len(args.data[i])}}

\* C28: for a batch of sequences whose affixes are all canonical, guess
\* returns one scheme, the same on every evaluation of the same batch, whose
\* letters include every affix that occurs in a sequence of the batch.
\* For the sequences I-X, B-X and I-X, E-X the call returns IOB or IOE, the
\* first of the two in the iteration order of a set; neither has both B and E.
C28_GuessCoversBatch ==
    (pc = "done" /\ ret.op = "guess" /\ args.lists) =>
        /\ ret.ok
        /\ ret.val \in DOMAIN schemes
        /\ BatchAffixes \subseteq Range(ret.val)
        /\ guess(BatchPassed, TRUE, args.strs, DefaultFormat) = {ret}

(***************************************************************************)
(* Parsing under a tag format: parse applied to the tags that a coupled    *)
(* sequence with canonical affixes is written as under a tag format, the   *)
(* outside tokens being written with the outside tag of the format.        *)
(***************************************************************************)
MaxParse == 3

ParseFormats == [kind : {"prefix", "suffix"}, glue : {<<"-">>, <<"_">>},
                 otag : {<<"O">>, <<"0">>}]

InitParse ==
    /\ pc = "call"
    /\ args \in [tokens : SeqsUpTo(CoupledPairs, MaxParse), fmt : ParseFormats]
    /\ ret = NoRet
    /\ warned = <<>>

\* the tags of the sequence under the format
TagsWritten == merge_tags(args.tokens, args.fmt)

\* parse(tags, kind=..., glue=..., otag=...)
ParseWritten ==
    /\ pc = "call"
    /\ ret' = parse(TagsWritten, <<>>, <<>>, <<>>, args.fmt)
    /\ pc' = "done"
    /\ UNCHANGED <<args, warned>>

NextParse == ParseWritten

SpecParse == InitParse /\ [][NextParse]_vars

\* C29: parse accepts every tag sequence that is well formed under the given
\* tag format and uses canonical affixes only, the empty sequence and the
\* sequences whose outside tokens are written with another outside tag than
\* O included, and returns one label-affix pair per tag without raising.
\* parse_tag returns the outside tag itself as the affix of an outside
\* token, which check_scheme accepts only when it is O; an empty list
\* cannot be checked at all.
C29_ParseAcceptsWellFormed ==
    (pc = "done" /\ ret.op = "parse") =>
        /\ ret.ok
        /\ Len(ret.val) = Len(TagsWritten)
        /\ \A i \in 1..Len(ret.val) : ret.val[i][1] = args.tokens[i][1]

(***************************************************************************)
(* Chunk scoring (scorer.py): compute_chunk_stats applied to references    *)
(* and hypotheses, two lists of blocks of annotated Tokens as load returns *)
(* them.  The statistics are a dictionary from labels to the counts true,  *)
(* gold and pred, a function whose domain is the labels counted so far.    *)
(***************************************************************************)
\* stats[label].field += 1 on a defaultdict of Stats()
bump(stats, label, field) ==
    IF label \in DOMAIN stats
    THEN [stats EXCEPT ![label][field] = @ + 1]
    ELSE stats @@ (label :> [[true |-> 0, gold |-> 0, pred |-> 0]
                                EXCEPT ![field] = 1])

\* the statistics after the gold and the pred count of one position
count_begin(stats, ref, hyp) ==
    IF truthy(ref.boc) /\ truthy(hyp.boc)
    THEN bump(bump(stats, ref.label, "gold"), hyp.label, "pred")
    ELSE IF truthy(ref.boc) THEN bump(stats, ref.label, "gold")
    ELSE IF truthy(hyp.boc) THEN bump(stats, hyp.label, "pred")
    ELSE stats

\* chunk_valid after "correct beginning of chunk"
begun(chunk_valid, ref, hyp) ==
    chunk_valid \/ (truthy(ref.boc) /\ truthy(hyp.boc) /\ ref.label = hyp.label)

\* the statistics after "correct end of chunk"
count_true(stats, chunk_valid, ref, hyp) ==
    IF truthy(ref.eoc) /\ truthy(hyp.eoc) /\ ref.label = hyp.label /\ chunk_valid
    THEN bump(stats, ref.label, "true") ELSE stats

\* a chunk_valid that only a counted end of chunk resets
ended_when_counted(chunk_valid, ref, hyp) ==
    /\ chunk_valid
    /\ ~(truthy(ref.eoc) /\ truthy(hyp.eoc) /\ ref.label = hyp.label)

\* chunk_valid after "correct end of chunk" and "wrong end of chunk or label"
ended(chunk_valid, ref, hyp) ==
    /\ chunk_valid
    /\ ~(truthy(ref.eoc) /\ truthy(hyp.eoc) /\ ref.label = hyp.label)
    /\ ~(ref.eoc # hyp.eoc \/ ref.label # hyp.label)

\* the inner loop of compute_chunk_stats from position j of block i
RECURSIVE score_block(_, _, _, _, _)
score_block(ref, hyp, j, stats, chunk_valid) ==
    IF j > Len(ref) THEN stats
    ELSE score_block(ref, hyp, j + 1,
                     count_true(count_begin(stats, ref[j], hyp[j]),
                                begun(chunk_valid, ref[j], hyp[j]),
                                ref[j], hyp[j]),
                     ended(begun(chunk_valid, ref[j], hyp[j]), ref[j], hyp[j]))

RECURSIVE score_blocks(_, _, _, _)
score_blocks(refs, hyps, i, stats) ==
    IF i > Len(refs) THEN stats
    ELSE score_blocks(refs, hyps, i + 1,
                      score_block(refs[i], hyps[i], 1, stats, FALSE))

\* compute_chunk_stats(refs, hyps): hyps[i][j] raises IndexError when the
\* hypotheses have fewer blocks or a shorter block than the references
compute_chunk_stats(refs, hyps) ==
    IF \/ Len(hyps) < Len(refs)
       \/ \E i \in 1..Len(refs) : Len(hyps[i]) < Len(refs[i])
    THEN Raised("compute_chunk_stats", "IndexError")
    ELSE Returned("compute_chunk_stats", score_blocks(refs, hyps, 1, <<>>))

MaxScored == 3

ScoredTokens ==
    {Token(p[2], p[1]).val :
        p \in {Outside, <<(<<"X">>), <<"B">> >>, <<(<<"X">>), <<"I">> >>,
               <<(<<"Y">>), <<"I">> >>}}

\* references and hypotheses with equal token counts, annotated
InitScore ==
    /\ pc = "call"
    /\ \E n \in 0..MaxScored, more \in MoreBlocks :
        \E ref \in [1..n -> ScoredTokens], hyp \in [1..n -> ScoredTokens] :
            args = [refs |-> annotate(<<ref>> \o more, <<"O">>),
                    hyps |-> annotate(<<hyp>> \o more, <<"O">>)]
    /\ ret = NoRet
    /\ warned = <<>>

ComputeChunkStats ==
    /\ pc = "call"
    /\ ret' = compute_chunk_stats(args.refs, args.hyps)
    /\ pc' = "done"
    /\ UNCHANGED <<args, warned>>

NextScore == ComputeChunkStats

SpecScore == InitScore /\ [][NextScore]_vars

\* the chunks of the data that carry the label
ChunksOf(data, label) == {c \in Range(get_chunks(data).val) : c.label = label}

\* the counts reported for the label, none counting as zero
Reported(label) ==
    IF label \in DOMAIN ret.val THEN ret.val[label]
    ELSE [true |-> 0, gold |-> 0, pred |-> 0]

\* C30: for references and hypotheses with equal token counts,
\* compute_chunk_stats reports for each label: gold, the number of chunks of
\* the references with that label; pred, the number of chunks of the
\* hypotheses with that label; and true, the number of chunks that occur in
\* both with the same block, label, first token and last token; hence true
\* is at most the smaller of gold and pred.
C30_ChunkCounts ==
    (pc = "done" /\ ret.op = "compute_chunk_stats") =>
        /\ ret.ok
        /\ DOMAIN ret.val \subseteq Labels
        /\ \A label \in Labels :
            /\ Reported(label).gold = Cardinality(ChunksOf(args.refs, label))
            /\ Reported(label).pred = Cardinality(ChunksOf(args.hyps, label))
            /\ Reported(label).true
                = Cardinality(ChunksOf(args.refs, label)
                              \cap ChunksOf(args.hyps, label))
            /\ Reported(label).true <= Reported(label).gold
            /\ Reported(label).true <= Reported(label).pred

\* the hypotheses split the chunk of the references in two and share the
\* chunk of the second block: one true chunk out of two gold and three pred
C30_Witness ==
    /\ pc = "done" /\ ret.op = "compute_chunk_stats" /\ ret.ok
    /\ Len(args.refs) = 2
    /\ Reported(<<"X">>) = [true |-> 1, gold |-> 2, pred |-> 3]

====
